---- MODULE Spec2Model ----
(***************************************************************************)
(* Model of the funded-companies pipeline: the deduplication engine        *)
(* (src/utils/deduplication.py: name normalisation, similarity scoring,    *)
(* seed-anchored grouping, priority-driven group merge, statistics), the   *)
(* filing fetch, the website enrichment, the delivery to the webhook and   *)
(* main, which runs them in order.                                         *)
(*                                                                         *)
(* A Python str is a sequence of one-character strings; a list is a        *)
(* sequence; None is None for a string-valued field and <<>> for an        *)
(* integer-valued one (a present integer n is <<n>>).  Records of the      *)
(* input list are referred to by their position, as the Python lists hold  *)
(* references to the same dict objects.                                    *)
(***************************************************************************)
EXTENDS Integers, Sequences, FiniteSets, TLC

\* ------------------------------------------------------------------------
\* Characters and strings
\* ------------------------------------------------------------------------

\* The characters of the model in code-point order.
Alphabet ==
    << "\t", "\n", " ", "&", ",", "-", ".",
       "0", "1", "2", "3", "4", "5", "6", "7", "8", "9",
       "A", "B", "C", "D", "E", "F", "G", "H", "I", "J", "K", "L", "M",
       "N", "O", "P", "Q", "R", "S", "T", "U", "V", "W", "X", "Y", "Z",
       "_",
       "a", "b", "c", "d", "e", "f", "g", "h", "i", "j", "k", "l", "m",
       "n", "o", "p", "q", "r", "s", "t", "u", "v", "w", "x", "y", "z" >>

Range(s) == {s[i] : i \in DOMAIN s}

Chars == Range(Alphabet)

OrdOf == [c \in Chars |-> CHOOSE i \in DOMAIN Alphabet : Alphabet[i] = c]
Ord(c) == OrdOf[c]

UpperLetters == SubSeq(Alphabet, Ord("A"), Ord("Z"))
LowerLetters == SubSeq(Alphabet, Ord("a"), Ord("z"))
Digits == SubSeq(Alphabet, Ord("0"), Ord("9"))
UpperSet == Range(UpperLetters)

\* str.lower() on one character
LowerOf ==
    [c \in Chars |->
        IF c \in UpperSet
        THEN LowerLetters[CHOOSE i \in DOMAIN UpperLetters : UpperLetters[i] = c]
        ELSE c]
LowerChar(c) == LowerOf[c]

\* \s of the regular expressions, and the characters str.strip() removes
SpaceChars == {" ", "\t", "\n"}
IsSpace(c) == c \in SpaceChars

\* \w of the regular expressions
WordChars == Range(UpperLetters) \cup Range(LowerLetters) \cup Range(Digits) \cup {"_"}
IsWord(c) == c \in WordChars

Min(S) == CHOOSE x \in S : \A y \in S : x <= y
Max(S) == CHOOSE x \in S : \A y \in S : x >= y

\* str.lower()
Lower(s) == [i \in DOMAIN s |-> LowerChar(s[i])]

\* str.strip()
RECURSIVE StripLeft(_)
StripLeft(s) == IF s # <<>> /\ IsSpace(s[1]) THEN StripLeft(Tail(s)) ELSE s
RECURSIVE StripRight(_)
StripRight(s) ==
    IF s # <<>> /\ IsSpace(s[Len(s)]) THEN StripRight(SubSeq(s, 1, Len(s) - 1)) ELSE s
Strip(s) == StripRight(StripLeft(s))

\* ------------------------------------------------------------------------
\* COMPANY_SUFFIXES: each regular expression is a sequence of items,
\*   ws  : \s*      opt : c?      lit : c
\* and is anchored at the end of the string by its trailing $.
\* ------------------------------------------------------------------------

Ws == [kind |-> "ws", c |-> " "]
OptC(ch) == [kind |-> "opt", c |-> ch]
Lit(s) == [i \in DOMAIN s |-> [kind |-> "lit", c |-> s[i]]]

\* \s*,?\s*  the common head of every suffix pattern
SuffixHead == <<Ws, OptC(","), Ws>>

COMPANY_SUFFIXES ==
    << SuffixHead \o Lit(<<"i","n","c">>) \o <<OptC(".")>>,
       SuffixHead \o Lit(<<"l","l","c">>) \o <<OptC(".")>>,
       SuffixHead \o Lit(<<"l","t","d">>) \o <<OptC(".")>>,
       SuffixHead \o Lit(<<"c","o","r","p">>) \o <<OptC(".")>>,
       SuffixHead \o Lit(<<"c","o","r","p","o","r","a","t","i","o","n">>),
       SuffixHead \o Lit(<<"i","n","c","o","r","p","o","r","a","t","e","d">>),
       SuffixHead \o Lit(<<"l","i","m","i","t","e","d">>),
       SuffixHead \o Lit(<<"l">>) \o <<OptC(".")>> \o Lit(<<"l">>) \o <<OptC(".")>>
                  \o Lit(<<"c">>) \o <<OptC(".")>>,
       SuffixHead \o Lit(<<"c","o","m","p","a","n","y">>),
       SuffixHead \o Lit(<<"c","o">>) \o <<OptC(".")>>,
       SuffixHead \o Lit(<<"h","o","l","d","i","n","g">>) \o <<OptC("s")>>,
       SuffixHead \o Lit(<<"g","r","o","u","p">>),
       SuffixHead \o Lit(<<"p","a","r","t","n","e","r">>) \o <<OptC("s")>>,
       SuffixHead \o Lit(<<"v","e","n","t","u","r","e">>) \o <<OptC("s")>>,
       SuffixHead \o Lit(<<"c","a","p","i","t","a","l">>),
       SuffixHead \o Lit(<<"f","u","n","d">>),
       SuffixHead \o Lit(<<"l","p">>),
       SuffixHead \o Lit(<<"l">>) \o <<OptC(".")>> \o Lit(<<"p">>) \o <<OptC(".")>> >>

\* The start of the match of pat that ends at the end of s, 0 when there is
\* none.  Every match of a $-anchored pattern is a suffix of s, so the
\* leftmost match re.sub takes is the longest one; it is read from the end
\* of s backwards (i is the last character of s not yet matched, k the last
\* item of pat not yet matched).  No optional character equals the literal
\* before it, so reading backwards never has to choose (re.IGNORECASE).
RECURSIVE MatchBack(_, _, _, _)
MatchBack(s, i, pat, k) ==
    IF k = 0 THEN i + 1
    ELSE LET it == pat[k]
             here == i >= 1 /\ LowerChar(s[i]) = it.c
         IN  CASE it.kind = "lit" ->
                    IF here THEN MatchBack(s, i - 1, pat, k - 1) ELSE 0
               [] it.kind = "opt" ->
                    IF here THEN MatchBack(s, i - 1, pat, k - 1)
                    ELSE MatchBack(s, i, pat, k - 1)
               [] it.kind = "ws" ->
                    IF i >= 1 /\ IsSpace(s[i]) THEN MatchBack(s, i - 1, pat, k)
                    ELSE MatchBack(s, i, pat, k - 1)

\* re.sub(pattern, "", s): the match that reaches the end of s is removed
ReSubSuffix(pat, s) ==
    LET start == MatchBack(s, Len(s), pat, Len(pat))
    IN  IF start = 0 THEN s ELSE SubSeq(s, 1, start - 1)

\* the loop over COMPANY_SUFFIXES (nothing matches in an empty string)
RECURSIVE RemoveSuffixes(_, _)
RemoveSuffixes(s, k) ==
    IF k > Len(COMPANY_SUFFIXES) \/ s = <<>> THEN s
    ELSE RemoveSuffixes(ReSubSuffix(COMPANY_SUFFIXES[k], s), k + 1)

\* re.sub(r'[^\w\s]', '', s)
RemoveSpecial(s) == SelectSeq(s, LAMBDA c : IsWord(c) \/ IsSpace(c))

\* re.sub(r'\s+', ' ', s)
RECURSIVE CollapseSpace(_)
CollapseSpace(s) ==
    IF s = <<>> THEN <<>>
    ELSE IF IsSpace(s[1])
         THEN IF Len(s) > 1 /\ IsSpace(s[2]) THEN CollapseSpace(Tail(s))
              ELSE <<" ">> \o CollapseSpace(Tail(s))
         ELSE <<s[1]>> \o CollapseSpace(Tail(s))

\* _normalize_company_name
NormalizeCompanyName(name) ==
    IF name = <<>> THEN <<>>
    ELSE Strip(CollapseSpace(RemoveSpecial(RemoveSuffixes(Strip(Lower(name)), 1))))

\* ------------------------------------------------------------------------
\* Similarity: rapidfuzz fuzz.token_sort_ratio
\* ------------------------------------------------------------------------

\* str.split(): the maximal runs of non-whitespace characters
RECURSIVE Split(_, _)
Split(s, cur) ==
    IF s = <<>> THEN (IF cur = <<>> THEN <<>> ELSE <<cur>>)
    ELSE IF IsSpace(s[1])
         THEN (IF cur = <<>> THEN <<>> ELSE <<cur>>) \o Split(Tail(s), <<>>)
         ELSE Split(Tail(s), Append(cur, s[1]))

\* a < b for strings, by code point
RECURSIVE StrLess(_, _)
StrLess(a, b) ==
    IF b = <<>> THEN FALSE
    ELSE IF a = <<>> THEN TRUE
    ELSE IF a[1] = b[1] THEN StrLess(Tail(a), Tail(b))
    ELSE Ord(a[1]) < Ord(b[1])

RECURSIVE InsertToken(_, _)
InsertToken(t, sorted) ==
    IF sorted = <<>> THEN <<t>>
    ELSE IF StrLess(t, sorted[1]) THEN <<t>> \o sorted
    ELSE <<sorted[1]>> \o InsertToken(t, Tail(sorted))

RECURSIVE SortTokens(_)
SortTokens(ts) ==
    IF ts = <<>> THEN <<>> ELSE InsertToken(ts[1], SortTokens(Tail(ts)))

RECURSIVE JoinTokens(_)
JoinTokens(ts) ==
    IF ts = <<>> THEN <<>>
    ELSE IF Len(ts) = 1 THEN ts[1]
    ELSE ts[1] \o <<" ">> \o JoinTokens(Tail(ts))

TokenSort(s) == JoinTokens(SortTokens(Split(s, <<>>)))

\* One row of the longest-common-subsequence table: prev is the row of the
\* previous character of a, row the part of this row filled so far
\* (row[j+1] is column j).
RECURSIVE LcsRow(_, _, _, _)
LcsRow(prev, ch, b, row) ==
    IF Len(row) = Len(b) + 1 THEN row
    ELSE LET j == Len(row)
         IN  LcsRow(prev, ch, b,
                    Append(row, IF ch = b[j] THEN prev[j] + 1
                                ELSE IF prev[j + 1] >= row[j] THEN prev[j + 1]
                                ELSE row[j]))

\* (a row is never empty; asking for its length has the row computed before
\* the next one is started)
RECURSIVE LcsRows(_, _, _, _)
LcsRows(a, b, i, prev) ==
    IF i > Len(a) \/ Len(prev) = 0 THEN prev[Len(b) + 1]
    ELSE LcsRows(a, b, i + 1, LcsRow(prev, a[i], b, <<0>>))

LcsLen(a, b) == LcsRows(a, b, 1, [j \in 1..(Len(b) + 1) |-> 0])

\* Scores are kept in hundredths of a point (the score times ScoreScale,
\* rounded down), so that comparing with a whole threshold is exact.
ScoreScale == 100

\* fuzz.ratio: 100 * (1 - indel distance / (len a + len b))
Ratio(a, b) ==
    IF Len(a) + Len(b) = 0 THEN 100 * ScoreScale
    ELSE (100 * ScoreScale * 2 * LcsLen(a, b)) \div (Len(a) + Len(b))

TokenSortRatio(a, b) == Ratio(TokenSort(a), TokenSort(b))

FUZZY_MATCH_THRESHOLD == 85

\* _calculate_similarity without its guard for empty names
CalculateSimilarityNoEmptyGuard(name1, name2) ==
    IF name1 = name2 THEN 100 * ScoreScale
    ELSE TokenSortRatio(name1, name2)

\* _calculate_similarity with fuzz.ratio in the place of fuzz.token_sort_ratio
CalculateSimilarityOrdered(name1, name2) ==
    IF name1 = <<>> \/ name2 = <<>> THEN 0
    ELSE IF name1 = name2 THEN 100 * ScoreScale
    ELSE Ratio(name1, name2)

\* _calculate_similarity
CalculateSimilarity(name1, name2) ==
    IF name1 = <<>> \/ name2 = <<>> THEN 0
    ELSE IF name1 = name2 THEN 100 * ScoreScale
    ELSE TokenSortRatio(name1, name2)

\* ------------------------------------------------------------------------
\* Company records
\* ------------------------------------------------------------------------

\* Python's None as the value of a string-valued field
None == "<None>"

\* truth value of a string-valued, an integer-valued and a list-valued field
TruthyStr(v) == v # None /\ v # ""
TruthyInt(v) == v # <<>> /\ v[1] # 0
TruthyList(v) == v # <<>>

Company(name, source, website, description, industry, location, ceo, round, amount, investors) ==
    [company_name |-> name, source |-> source, company_website |-> website,
     description |-> description, industry |-> industry, location |-> location,
     ceo_name |-> ceo, funding_round |-> round, funding_amount |-> amount,
     investors |-> investors]

\* source_priority.get(x.get("source", ""), 999)
SourcePriority(source) ==
    CASE source = "SEC Form D" -> 0
      [] source = "TechCrunch" -> 1
      [] source = "VentureBeat" -> 2
      [] source = "CB Insights" -> 3
      [] source = "PitchBook" -> 4
      [] source = "Founder Collective Portfolio" -> 5
      [] OTHER -> 999

\* ------------------------------------------------------------------------
\* Inputs of the model
\* ------------------------------------------------------------------------

MaxCompanies == 3
MaxGroup == 3

\* Names given to the deduplication run: three names whose normalised forms
\* make a chain (the first two and the last two are within the threshold,
\* the outer two are not), a name that is nothing but a suffix, and the
\* empty (missing) name.
NameA == <<"D","a","t","a","l","a","b",","," ","I","n","c",".">>
NameB == <<"D","a","t","a","l","a","d">>
NameC == <<"D","a","t","o","l","a","d">>
NameSuffixOnly == <<"I","n","c",".">>
NameMissing == <<>>
PoolNames == {NameA, NameB, NameC, NameSuffixOnly, NameMissing}

\* A record as the filing adapter builds it and as the news adapter does.
SecCompany(name) ==
    Company(name, "SEC Form D", None, "Corporation incorporated in DE", "",
            "Austin, TX", None, "Equity", <<0>>, <<>>)
NewsCompany(name, source) ==
    Company(name, source, None, "AI tooling", "Software", "", None,
            "Series A", <<500000>>, <<"Acme Ventures">>)

\* Filings carry the legal name of the issuer; news items carry any name.
SecNames == {NameA, NameSuffixOnly}
CompanyPool ==
    {SecCompany(n) : n \in SecNames} \cup {NewsCompany(n, "TechCrunch") : n \in PoolNames}

\* Records handed to the merge directly: every source class (a known
\* priority, the top priority, an unrecognised source) with every profile
\* of field values.
MergeSources == {"SEC Form D", "TechCrunch", "Crunchbase"}
FooInc == <<"F","o","o"," ","I","n","c">>
Foo == <<"F","o","o">>
FooLabs == <<"F","o","o"," ","L","a","b","s">>
MergeProfile(p, source) ==
    CASE p = 1 -> Company(FooInc, source, None, "", "", "", None, "Equity", <<0>>, <<>>)
      [] p = 2 -> Company(Foo, source, "w2", "d2", "X", "l2", "c2", "Series A",
                          <<500000>>, <<"A", "B">>)
      [] p = 3 -> Company(FooLabs, source, "w3", "d3", "Y", "l3", "c3", "Series B",
                          <<900000>>, <<"B", "C">>)
      [] p = 4 -> Company(FooInc, source, "w4", "", "", "l4", None, "Unknown",
                          <<>>, <<"A", "A">>)
      [] p = 5 -> Company(Foo, source, None, "d5", "Z", "", "c5", None,
                          <<>>, <<"", "C">>)
      [] p = 6 -> Company(FooLabs, source, "", "d6", "", "l6", "", "",
                          <<700>>, <<"C", "A">>)
MergeProfiles == 1..6
MergePool == {MergeProfile(p, s) : p \in MergeProfiles, s \in MergeSources}

SeqsUpTo(S, lo, hi) == UNION {[1..n -> S] : n \in lo..hi}

\* ------------------------------------------------------------------------
\* State
\* ------------------------------------------------------------------------

VARIABLES
    given,             \* the list as it was when deduplicate_companies was called
    companies,         \* the list given to deduplicate_companies (the dict objects)
    pc,                \* position in deduplicate_companies / get_dedup_stats
    normalized_names,  \* _group_similar_companies: normalised name per position
    used,              \* _group_similar_companies: positions already grouped
    groups,            \* _group_similar_companies: the groups closed so far
    group,             \* _group_similar_companies: the group being filled
    i,                 \* outer loop position
    j,                 \* inner loop position
    g,                 \* deduplicate_companies: position in grouped
    sorted_group,      \* _merge_company_group: the group sorted by priority
    merged,            \* _merge_company_group: the record being built
    k,                 \* _merge_company_group: position in sorted_group
    deduplicated,      \* deduplicate_companies: the output list
    stats,             \* result of get_dedup_stats
    stage,             \* main / the enrichment functions: position
    args,              \* main: its arguments
    sec_companies,     \* main: result of the filing fetch
    news_companies,    \* main: result of the news fetch
    max_lookups,       \* batch_enrich_websites: its argument
    lookup_count,      \* batch_enrich_websites: lookups started
    enrich_i,          \* enrichment loop position
    lookups,           \* the calls made to _find_company_website (positions)
    send_i,            \* send_to_clay: loop position
    payloads,          \* what was handed to the webhook, in order
    successful,        \* send_to_clay: records accepted
    failed,            \* send_to_clay: records not accepted
    batch_size,        \* config.CLAY_BATCH_SIZE as send_to_clay reads it
    attempt,           \* _send_batch_to_clay: attempt number, 0 outside a call
    responses,         \* _send_batch_to_clay: the answers to its requests so far
    sleeps,            \* _send_batch_to_clay: the delays it has slept so far
    fetch_pc,          \* fetch_sec_form_d_filings: position
    offset,            \* fetch_sec_form_d_filings: offset of the page asked for
    total_fetched,     \* fetch_sec_form_d_filings: filings received
    fetch_companies,   \* fetch_sec_form_d_filings: all_companies, the records accumulated
    response,          \* what _make_sec_api_request returned for the page
    sec_attempt,       \* _make_sec_api_request: attempt number, 0 outside a call
    earlier            \* what an earlier process returned for the same input

vars == <<given, companies, pc, normalized_names, used, groups, group, i, j, g,
          sorted_group, merged, k, deduplicated, stats,
          stage, args, sec_companies, news_companies,
          max_lookups, lookup_count, enrich_i, lookups, send_i, payloads, successful, failed,
          batch_size, attempt, responses, sleeps,
          fetch_pc, offset, total_fetched, fetch_companies, response, sec_attempt,
          earlier>>

NoRecord == [company_name |-> <<>>]
NoStats == [original_count |-> 0]

groupingVars == <<normalized_names, used, groups, group, i, j>>
mergeVars == <<sorted_group, merged, k>>
mainVars == <<stage, args, sec_companies, news_companies>>
enrichVars == <<max_lookups, lookup_count, enrich_i, lookups>>
deliveryVars == <<batch_size, attempt, responses, sleeps>>
sendVars == <<send_i, payloads, successful, failed, deliveryVars>>
fetchVars == <<fetch_pc, offset, total_fetched, fetch_companies, response, sec_attempt>>
runsVars == <<earlier>>
pipelineVars == <<mainVars, enrichVars, sendVars, fetchVars, runsVars>>

\* config.CLAY_BATCH_SIZE
CLAY_BATCH_SIZE == 1

NoArgs == [skip_sec |-> FALSE]

\* no earlier process has run on the input
NoRun == [ran |-> FALSE, output |-> <<>>]

\* no request has been answered yet
NoResponse == [kind |-> "unset"]

\* fetch_sec_form_d_filings has not been entered
NoFetch ==
    /\ fetch_pc = "idle"
    /\ offset = 0
    /\ total_fetched = 0
    /\ fetch_companies = <<>>
    /\ response = NoResponse
    /\ sec_attempt = 0

\* main has not been entered: the engine is called directly
NoPipeline ==
    /\ stage = "none"
    /\ args = NoArgs
    /\ sec_companies = <<>>
    /\ news_companies = <<>>
    /\ max_lookups = 0
    /\ lookup_count = 0
    /\ enrich_i = 1
    /\ lookups = <<>>
    /\ send_i = 1
    /\ payloads = <<>>
    /\ successful = 0
    /\ failed = 0
    /\ batch_size = CLAY_BATCH_SIZE
    /\ attempt = 0
    /\ responses = <<>>
    /\ sleeps = <<>>
    /\ NoFetch
    /\ earlier = NoRun

\* deduplicate_companies is called with a list the adapters produced
Init ==
    /\ companies \in SeqsUpTo(CompanyPool, 0, MaxCompanies)
    /\ given = companies
    /\ pc = "call"
    /\ normalized_names = <<>>
    /\ used = {}
    /\ groups = <<>>
    /\ group = <<>>
    /\ i = 1
    /\ j = 1
    /\ g = 1
    /\ sorted_group = <<>>
    /\ merged = NoRecord
    /\ k = 1
    /\ deduplicated = <<>>
    /\ stats = NoStats
    /\ NoPipeline

\* _merge_company_group is called on one group of one to MaxGroup records
InitMerge ==
    /\ companies \in SeqsUpTo(MergePool, 1, MaxGroup)
    /\ given = companies
    /\ pc = "merge"
    /\ normalized_names = <<>>
    /\ used = DOMAIN companies
    /\ groups = << [n \in DOMAIN companies |-> n] >>
    /\ group = <<>>
    /\ i = Len(companies) + 1
    /\ j = 1
    /\ g = 1
    /\ sorted_group = <<>>
    /\ merged = NoRecord
    /\ k = 1
    /\ deduplicated = <<>>
    /\ stats = NoStats
    /\ NoPipeline

\* ------------------------------------------------------------------------
\* deduplicate_companies, _group_similar_companies
\* ------------------------------------------------------------------------

\* entry of deduplicate_companies: the empty list is returned at once,
\* otherwise grouping starts by normalising every name
DedupCall ==
    /\ pc = "call"
    /\ IF companies = <<>>
       THEN /\ pc' = "stats"
            /\ UNCHANGED normalized_names
       ELSE /\ pc' = "seed"
            /\ normalized_names' = [n \in DOMAIN companies |->
                                       NormalizeCompanyName(companies[n].company_name)]
    /\ used' = {}
    /\ groups' = <<>>
    /\ i' = 1
    /\ UNCHANGED <<given, companies, group, j, g, deduplicated, stats>>
    /\ UNCHANGED mergeVars
    /\ UNCHANGED pipelineVars

\* one iteration of the outer loop: a used record is skipped, an unused one
\* opens a group as its seed
GroupSeed ==
    /\ pc = "seed"
    /\ i <= Len(companies)
    /\ IF i \in used
       THEN /\ i' = i + 1
            /\ UNCHANGED <<pc, used, group, j>>
       ELSE /\ group' = <<i>>
            /\ used' = used \cup {i}
            /\ j' = 1
            /\ pc' = "scan"
            /\ UNCHANGED i
    /\ UNCHANGED <<given, companies, normalized_names, groups, g, deduplicated, stats>>
    /\ UNCHANGED mergeVars
    /\ UNCHANGED pipelineVars

\* the inner loop step that forgets used.add(j)
GroupScanNoMark ==
    /\ pc = "scan"
    /\ j <= Len(companies)
    /\ IF j \notin used
          /\ CalculateSimilarity(normalized_names[i], normalized_names[j])
                >= FUZZY_MATCH_THRESHOLD * ScoreScale
       THEN group' = Append(group, j)
       ELSE UNCHANGED group
    /\ j' = j + 1
    /\ UNCHANGED <<given, companies, pc, normalized_names, used, groups, i, g,
                   deduplicated, stats>>
    /\ UNCHANGED mergeVars
    /\ UNCHANGED pipelineVars

\* the inner loop step that compares with the newest member of the group
\* instead of its seed
GroupScanChained ==
    /\ pc = "scan"
    /\ j <= Len(companies)
    /\ IF j \notin used
          /\ CalculateSimilarity(normalized_names[group[Len(group)]], normalized_names[j])
                >= FUZZY_MATCH_THRESHOLD * ScoreScale
       THEN /\ group' = Append(group, j)
            /\ used' = used \cup {j}
       ELSE UNCHANGED <<group, used>>
    /\ j' = j + 1
    /\ UNCHANGED <<given, companies, pc, normalized_names, groups, i, g, deduplicated, stats>>
    /\ UNCHANGED mergeVars
    /\ UNCHANGED pipelineVars

\* the inner loop step that asks for a similarity above the threshold
GroupScanStrict ==
    /\ pc = "scan"
    /\ j <= Len(companies)
    /\ IF j \notin used
          /\ CalculateSimilarity(normalized_names[i], normalized_names[j])
                > FUZZY_MATCH_THRESHOLD * ScoreScale
       THEN /\ group' = Append(group, j)
            /\ used' = used \cup {j}
       ELSE UNCHANGED <<group, used>>
    /\ j' = j + 1
    /\ UNCHANGED <<given, companies, pc, normalized_names, groups, i, g, deduplicated, stats>>
    /\ UNCHANGED mergeVars
    /\ UNCHANGED pipelineVars

\* an inner loop that stops at the first record it adds to the group
GroupScanFirstMatch ==
    /\ pc = "scan"
    /\ j <= Len(companies)
    /\ IF j \notin used
          /\ CalculateSimilarity(normalized_names[i], normalized_names[j])
                >= FUZZY_MATCH_THRESHOLD * ScoreScale
       THEN /\ group' = Append(group, j)
            /\ used' = used \cup {j}
            /\ j' = Len(companies) + 1
       ELSE /\ j' = j + 1
            /\ UNCHANGED <<group, used>>
    /\ UNCHANGED <<given, companies, pc, normalized_names, groups, i, g, deduplicated, stats>>
    /\ UNCHANGED mergeVars
    /\ UNCHANGED pipelineVars

\* one iteration of the inner loop: an unused record joins the group when its
\* similarity to the seed reaches the threshold
GroupScan ==
    /\ pc = "scan"
    /\ j <= Len(companies)
    /\ IF j \notin used
          /\ CalculateSimilarity(normalized_names[i], normalized_names[j])
                >= FUZZY_MATCH_THRESHOLD * ScoreScale
       THEN /\ group' = Append(group, j)
            /\ used' = used \cup {j}
       ELSE UNCHANGED <<group, used>>
    /\ j' = j + 1
    /\ UNCHANGED <<given, companies, pc, normalized_names, groups, i, g, deduplicated, stats>>
    /\ UNCHANGED mergeVars
    /\ UNCHANGED pipelineVars

\* the inner loop is over: groups.append(group)
GroupClose ==
    /\ pc = "scan"
    /\ j > Len(companies)
    /\ groups' = Append(groups, group)
    /\ i' = i + 1
    /\ pc' = "seed"
    /\ UNCHANGED <<given, companies, normalized_names, used, group, j, g, deduplicated, stats>>
    /\ UNCHANGED mergeVars
    /\ UNCHANGED pipelineVars

\* the outer loop is over: grouping returns and the merge loop starts
GroupReturn ==
    /\ pc = "seed"
    /\ i > Len(companies)
    /\ pc' = "merge"
    /\ g' = 1
    /\ UNCHANGED <<given, companies, deduplicated, stats>>
    /\ UNCHANGED groupingVars
    /\ UNCHANGED mergeVars
    /\ UNCHANGED pipelineVars

\* ------------------------------------------------------------------------
\* _merge_company_group
\* ------------------------------------------------------------------------

\* sorted(group, key=priority): Python's sort is stable.  grp holds positions
\* of recs; x goes behind every element whose key is not larger.
RECURSIVE InsertByPriority(_, _, _)
InsertByPriority(x, sorted, recs) ==
    IF sorted = <<>> THEN <<x>>
    ELSE IF SourcePriority(recs[x].source) < SourcePriority(recs[sorted[1]].source)
         THEN <<x>> \o sorted
         ELSE <<sorted[1]>> \o InsertByPriority(x, Tail(sorted), recs)

RECURSIVE SortInto(_, _, _)
SortInto(grp, acc, recs) ==
    IF grp = <<>> THEN acc
    ELSE SortInto(Tail(grp), InsertByPriority(grp[1], acc, recs), recs)

\* a sort that puts a record before the records of equal priority
RECURSIVE InsertBeforeEqual(_, _, _)
InsertBeforeEqual(x, sorted, recs) ==
    IF sorted = <<>> THEN <<x>>
    ELSE IF SourcePriority(recs[x].source) <= SourcePriority(recs[sorted[1]].source)
         THEN <<x>> \o sorted
         ELSE <<sorted[1]>> \o InsertBeforeEqual(x, Tail(sorted), recs)

RECURSIVE SortIntoUnstable(_, _, _)
SortIntoUnstable(grp, acc, recs) ==
    IF grp = <<>> THEN acc
    ELSE SortIntoUnstable(Tail(grp), InsertBeforeEqual(grp[1], acc, recs), recs)

SortedUnstable(grp, recs) == SortIntoUnstable(grp, <<>>, recs)

SortedByPriority(grp, recs) == SortInto(grp, <<>>, recs)

\* the source of the group's first record alone
GroupSourcesOfFirst(grp, recs) == {recs[grp[1]].source}

\* set(c.get("source", "") for c in group if c.get("source"))
GroupSources(grp, recs) ==
    {recs[grp[n]].source : n \in {m \in DOMAIN grp : TruthyStr(recs[grp[m]].source)}}

\* list(set(...)): the elements of the set, each once, in the order the
\* set's hashing gives them (string hashes differ from process to process)
ListsOfSet(S) == {sq \in [1..Cardinality(S) -> S] : Range(sq) = S}

\* merged = sorted_group[0].copy(); merged["sources"] = all_sources
WithSources(rec, srcs) ==
    [f \in DOMAIN rec \cup {"sources"} |-> IF f = "sources" THEN srcs ELSE rec[f]]

\* a fill that takes every non-empty candidate
FillStrLatest(cur, cand) == IF TruthyStr(cand) THEN cand ELSE cur

\* a fill of funding_amount that keeps an explicit 0 and fills only None
FillIntIfAbsent(cur, cand) == IF cur = <<>> /\ TruthyInt(cand) THEN cand ELSE cur

\* if not merged.get(f) and company.get(f): merged[f] = company[f]
FillStr(cur, cand) == IF ~TruthyStr(cur) /\ TruthyStr(cand) THEN cand ELSE cur
FillInt(cur, cand) == IF ~TruthyInt(cur) /\ TruthyInt(cand) THEN cand ELSE cur

\* the investors loop: a name is appended when it is non-empty and not in
\* existing_investors, which starts as set(merged["investors"])
RECURSIVE AppendInvestors(_, _, _)
AppendInvestors(cur, existing, new) ==
    IF new = <<>> THEN cur
    ELSE IF new[1] # "" /\ new[1] \notin existing
         THEN AppendInvestors(Append(cur, new[1]), existing \cup {new[1]}, Tail(new))
         ELSE AppendInvestors(cur, existing, Tail(new))

MergeInvestors(cur, new) == AppendInvestors(cur, Range(cur), new)

\* An entry of an investors list that is a JSON object or array (the news
\* adapter passes the list of the model's answer through as it is): a
\* non-empty dict or list, which cannot be hashed.
InvestorObject == "<object>"
Hashable(inv) == inv # InvestorObject
AllHashable(seq) == \A n \in DOMAIN seq : Hashable(seq[n])

\* the entries of seq in front of its first unhashable one
RECURSIVE HashablePrefix(_)
HashablePrefix(seq) ==
    IF seq = <<>> \/ ~Hashable(seq[1]) THEN <<>>
    ELSE <<seq[1]>> \o HashablePrefix(Tail(seq))

\* set(merged.get("investors", [])) and "inv not in existing_investors" hash
\* the entries: an unhashable entry raises TypeError
FoldRaises(m, c) == ~AllHashable(m.investors) \/ ~AllHashable(c.investors)

GenericRounds == {"Unknown", "Equity", None}

\* a funding round rule that takes every specific candidate
MergeFundingRoundLatest(cur, cand) ==
    IF TruthyStr(cand) /\ cand \notin {"Unknown", None} THEN cand ELSE cur

\* the funding round rule
MergeFundingRound(cur, cand) ==
    IF cur \in GenericRounds /\ TruthyStr(cand) /\ cand \notin {"Unknown", None}
    THEN cand ELSE cur

\* the body of the loop over sorted_group[1:]
FoldCompany(m, c) ==
    [m EXCEPT !.company_website = FillStr(@, c.company_website),
              !.description = FillStr(@, c.description),
              !.investors = MergeInvestors(@, c.investors),
              !.funding_round = MergeFundingRound(@, c.funding_round),
              !.industry = FillStr(@, c.industry),
              !.location = FillStr(@, c.location),
              !.ceo_name = FillStr(@, c.ceo_name),
              !.funding_amount = FillInt(@, c.funding_amount)]

\* the body of the loop up to the statement that raises TypeError
FoldCompanyUntilRaise(m, c) ==
    [m EXCEPT !.company_website = FillStr(@, c.company_website),
              !.description = FillStr(@, c.description),
              !.investors = IF AllHashable(@)
                            THEN MergeInvestors(@, HashablePrefix(c.investors))
                            ELSE @]

\* the start of the merge that gives the record of a group of one a sources
\* value too
MergeBeginTagsSingle ==
    /\ pc = "merge"
    /\ g <= Len(groups)
    /\ IF Len(groups[g]) = 1
       THEN /\ merged' = WithSources(companies[groups[g][1]],
                                     <<companies[groups[g][1]].source>>)
            /\ sorted_group' = <<>>
            /\ k' = 1
            /\ pc' = "append"
       ELSE /\ sorted_group' = SortedByPriority(groups[g], companies)
            /\ \E srcs \in ListsOfSet(GroupSources(groups[g], companies)) :
                  merged' = WithSources(companies[sorted_group'[1]], srcs)
            /\ k' = 2
            /\ pc' = "fold"
    /\ UNCHANGED <<given, companies, g, deduplicated, stats>>
    /\ UNCHANGED groupingVars
    /\ UNCHANGED pipelineVars

\* _merge_company_group up to the loop: a group of one is returned as it is;
\* otherwise the group is sorted, the first record copied and sources set
MergeBegin ==
    /\ pc = "merge"
    /\ g <= Len(groups)
    /\ IF Len(groups[g]) = 1
       THEN /\ merged' = companies[groups[g][1]]
            /\ sorted_group' = <<>>
            /\ k' = 1
            /\ pc' = "append"
       ELSE /\ sorted_group' = SortedByPriority(groups[g], companies)
            /\ \E srcs \in ListsOfSet(GroupSources(groups[g], companies)) :
                  merged' = WithSources(companies[sorted_group'[1]], srcs)
            /\ k' = 2
            /\ pc' = "fold"
    /\ UNCHANGED <<given, companies, g, deduplicated, stats>>
    /\ UNCHANGED groupingVars
    /\ UNCHANGED pipelineVars

\* one iteration of the loop over sorted_group[1:].  The copy is shallow:
\* merged["investors"] is the list object of the first record, so what is
\* appended to it shows in that record too.  A TypeError raised by the
\* investors block leaves deduplicate_companies, which has no handler.
MergeFold ==
    /\ pc = "fold"
    /\ k <= Len(sorted_group)
    /\ IF FoldRaises(merged, companies[sorted_group[k]])
       THEN /\ merged' = FoldCompanyUntilRaise(merged, companies[sorted_group[k]])
            /\ pc' = "raised"
            /\ UNCHANGED k
       ELSE /\ merged' = FoldCompany(merged, companies[sorted_group[k]])
            /\ k' = k + 1
            /\ UNCHANGED pc
    /\ companies' = [companies EXCEPT ![sorted_group[1]].investors = merged'.investors]
    /\ UNCHANGED <<given, sorted_group, g, deduplicated, stats>>
    /\ UNCHANGED groupingVars
    /\ UNCHANGED pipelineVars

\* the loop is over: return merged
MergeReturn ==
    /\ pc = "fold"
    /\ k > Len(sorted_group)
    /\ pc' = "append"
    /\ UNCHANGED <<given, companies, g, deduplicated, stats>>
    /\ UNCHANGED groupingVars
    /\ UNCHANGED mergeVars
    /\ UNCHANGED pipelineVars

\* a merge loop that puts each record in front of the output list
DedupAppendFront ==
    /\ pc = "append"
    /\ deduplicated' = IF DOMAIN merged # {} THEN <<merged>> \o deduplicated
                       ELSE deduplicated
    /\ g' = g + 1
    /\ pc' = "merge"
    /\ UNCHANGED <<given, companies, stats>>
    /\ UNCHANGED groupingVars
    /\ UNCHANGED mergeVars
    /\ UNCHANGED pipelineVars

\* if merged: deduplicated.append(merged)   (a record with keys is truthy)
DedupAppend ==
    /\ pc = "append"
    /\ deduplicated' = IF DOMAIN merged # {} THEN Append(deduplicated, merged)
                       ELSE deduplicated
    /\ g' = g + 1
    /\ pc' = "merge"
    /\ UNCHANGED <<given, companies, stats>>
    /\ UNCHANGED groupingVars
    /\ UNCHANGED mergeVars
    /\ UNCHANGED pipelineVars

\* every group is merged: deduplicate_companies returns
DedupReturn ==
    /\ pc = "merge"
    /\ g > Len(groups)
    /\ pc' = "stats"
    /\ UNCHANGED <<given, companies, g, deduplicated, stats>>
    /\ UNCHANGED groupingVars
    /\ UNCHANGED mergeVars
    /\ UNCHANGED pipelineVars

\* ------------------------------------------------------------------------
\* get_dedup_stats
\* ------------------------------------------------------------------------

\* len(c.get("sources", []))
SourcesLen(c) == IF "sources" \in DOMAIN c THEN Len(c.sources) ELSE 0

\* sum(1 for c in deduped if len(c.get("sources", [])) > 1)
MergedCount(deduped) == Cardinality({n \in DOMAIN deduped : SourcesLen(deduped[n]) > 1})

DedupStats(original, deduped) ==
    [original_count |-> Len(original),
     deduplicated_count |-> Len(deduped),
     duplicates_removed |-> Len(original) - Len(deduped),
     companies_with_merged_sources |-> MergedCount(deduped),
     original_by_source |->
        [s \in {original[n].source : n \in DOMAIN original} |->
            Cardinality({n \in DOMAIN original : original[n].source = s})]]

GetDedupStats ==
    /\ pc = "stats"
    /\ stats' = DedupStats(companies, deduplicated)
    /\ pc' = "done"
    /\ UNCHANGED <<given, companies, g, deduplicated>>
    /\ UNCHANGED groupingVars
    /\ UNCHANGED mergeVars
    /\ UNCHANGED pipelineVars

\* ------------------------------------------------------------------------
\* batch_enrich_websites, enrich_with_websites
\* ------------------------------------------------------------------------

\* The website _find_company_website returns when it finds one.
FoundWebsite == "https://found.example"

\* _find_company_website returns a validated URL or None; it raises when the
\* answer of the service has no choices (IndexError, which
\* _make_perplexity_request does not catch).
LookupOutcomes == {"found", "none", "raise"}

\* company["company_website"] = website.  The record of a group of one is the
\* dict object of the input list, so the website shows there too.
SetWebsite(n, website) ==
    /\ deduplicated' = [deduplicated EXCEPT ![n].company_website = website]
    /\ companies' = IF n \in DOMAIN groups /\ Len(groups[n]) = 1
                    THEN [companies EXCEPT ![groups[n][1]].company_website = website]
                    ELSE companies

\* the call of _find_company_website on the record at n and what follows it
\* in the loop body; an exception leaves the enrichment function
Lookup(n) ==
    /\ lookups' = Append(lookups, n)
    /\ \E outcome \in LookupOutcomes :
          CASE outcome = "found" ->
                  /\ SetWebsite(n, FoundWebsite)
                  /\ enrich_i' = enrich_i + 1
                  /\ UNCHANGED stage
            [] outcome = "none" ->
                  /\ enrich_i' = enrich_i + 1
                  /\ UNCHANGED <<deduplicated, companies, stage>>
            [] outcome = "raise" ->
                  /\ stage' = "enrich_raised"
                  /\ UNCHANGED <<deduplicated, companies, enrich_i>>

\* a loop body that looks up without counting against max_lookups
BatchEnrichVisitUncounted ==
    /\ stage = "batch_enrich"
    /\ enrich_i <= Len(deduplicated)
    /\ LET company == deduplicated[enrich_i]
       IN  IF TruthyStr(company.company_website) \/ company.company_name = <<>>
           THEN /\ enrich_i' = enrich_i + 1
                /\ UNCHANGED <<deduplicated, companies, stage, lookup_count, lookups>>
           ELSE /\ lookup_count' = lookup_count + 1
                /\ Lookup(enrich_i)
    /\ UNCHANGED <<given, pc, g, stats, args, sec_companies, news_companies, max_lookups>>
    /\ UNCHANGED <<groupingVars, mergeVars, sendVars>>
    /\ UNCHANGED <<fetchVars, runsVars>>

\* a loop body that looks up again for a record that has a website
BatchEnrichVisitOverwrites ==
    /\ stage = "batch_enrich"
    /\ enrich_i <= Len(deduplicated)
    /\ LET company == deduplicated[enrich_i]
       IN  IF lookup_count >= max_lookups
           THEN /\ stage' = "enriched"
                /\ UNCHANGED <<deduplicated, companies, enrich_i, lookup_count, lookups>>
           ELSE IF company.company_name = <<>>
           THEN /\ enrich_i' = enrich_i + 1
                /\ UNCHANGED <<deduplicated, companies, stage, lookup_count, lookups>>
           ELSE /\ lookup_count' = lookup_count + 1
                /\ Lookup(enrich_i)
    /\ UNCHANGED <<given, pc, g, stats, args, sec_companies, news_companies, max_lookups>>
    /\ UNCHANGED <<groupingVars, mergeVars, sendVars>>
    /\ UNCHANGED <<fetchVars, runsVars>>

\* batch_enrich_websites: one iteration of "for company in companies"
BatchEnrichVisit ==
    /\ stage = "batch_enrich"
    /\ enrich_i <= Len(deduplicated)
    /\ LET company == deduplicated[enrich_i]
       IN  IF TruthyStr(company.company_website)
           THEN /\ enrich_i' = enrich_i + 1
                /\ UNCHANGED <<deduplicated, companies, stage, lookup_count, lookups>>
           ELSE IF lookup_count >= max_lookups
           THEN /\ stage' = "enriched"
                /\ UNCHANGED <<deduplicated, companies, enrich_i, lookup_count, lookups>>
           ELSE IF company.company_name = <<>>
           THEN /\ enrich_i' = enrich_i + 1
                /\ UNCHANGED <<deduplicated, companies, stage, lookup_count, lookups>>
           ELSE /\ lookup_count' = lookup_count + 1
                /\ Lookup(enrich_i)
    /\ UNCHANGED <<given, pc, g, stats, args, sec_companies, news_companies, max_lookups>>
    /\ UNCHANGED <<groupingVars, mergeVars, sendVars>>
    /\ UNCHANGED <<fetchVars, runsVars>>

\* batch_enrich_websites: the loop is over, return companies
BatchEnrichReturn ==
    /\ stage = "batch_enrich"
    /\ enrich_i > Len(deduplicated)
    /\ stage' = "enriched"
    /\ UNCHANGED <<given, companies, pc, g, deduplicated, stats, args, sec_companies,
                   news_companies>>
    /\ UNCHANGED <<groupingVars, mergeVars, enrichVars, sendVars>>
    /\ UNCHANGED <<fetchVars, runsVars>>

\* enrich_with_websites: one iteration of "for i, company in enumerate(companies)"
EnrichVisit ==
    /\ stage = "enrich"
    /\ enrich_i <= Len(deduplicated)
    /\ LET company == deduplicated[enrich_i]
       IN  IF TruthyStr(company.company_website) \/ company.company_name = <<>>
           THEN /\ enrich_i' = enrich_i + 1
                /\ UNCHANGED <<deduplicated, companies, stage, lookups>>
           ELSE Lookup(enrich_i)
    /\ UNCHANGED <<given, pc, g, stats, args, sec_companies, news_companies, max_lookups,
                   lookup_count>>
    /\ UNCHANGED <<groupingVars, mergeVars, sendVars>>
    /\ UNCHANGED <<fetchVars, runsVars>>

\* enrich_with_websites: the loop is over, return companies
EnrichReturn ==
    /\ stage = "enrich"
    /\ enrich_i > Len(deduplicated)
    /\ stage' = "enriched"
    /\ UNCHANGED <<given, companies, pc, g, deduplicated, stats, args, sec_companies,
                   news_companies>>
    /\ UNCHANGED <<groupingVars, mergeVars, enrichVars, sendVars>>
    /\ UNCHANGED <<fetchVars, runsVars>>

\* ------------------------------------------------------------------------
\* send_to_clay, _prepare_clay_payload
\* ------------------------------------------------------------------------

\* ", ".join(items)
RECURSIVE JoinStr(_)
JoinStr(items) ==
    IF items = <<>> THEN ""
    ELSE IF Len(items) = 1 THEN items[1]
    ELSE items[1] \o ", " \o JoinStr(Tail(items))

\* str(item) for an entry of an investors list
StrOf(item) == IF item = InvestorObject THEN "{...}" ELSE item

\* _format_list: ", ".join(str(item) for item in items if item)
FormatList(items) ==
    LET kept == SelectSeq(items, LAMBDA item : item # "")
    IN  JoinStr([n \in DOMAIN kept |-> StrOf(kept[n])])

\* a source field that is always the scalar source of the record
FormatSourceScalar(company) == company.source

\* _format_source
FormatSource(company) ==
    LET sources == IF "sources" \in DOMAIN company THEN company.sources ELSE <<>>
    IN  IF sources # <<>> THEN JoinStr(sources) ELSE company.source

\* the value of field f is None
IsNone(f, v) ==
    IF f = "funding_amount" THEN v = <<>>
    ELSE IF f \in {"company_website", "funding_round", "ceo_name"} THEN v = None
    ELSE FALSE

\* the record _prepare_clay_payload builds for one company, its None values
\* removed
ClayRecord(company) ==
    LET record == [company_name |-> company.company_name,
                   company_website |-> company.company_website,
                   funding_amount |-> company.funding_amount,
                   funding_round |-> company.funding_round,
                   investors |-> FormatList(company.investors),
                   industry |-> company.industry,
                   location |-> company.location,
                   source |-> FormatSource(company),
                   description |-> company.description,
                   ceo_name |-> company.ceo_name]
    IN  [f \in {h \in DOMAIN record : ~IsNone(h, record[h])} |-> record[f]]

PrepareClayPayload(batch) == [n \in DOMAIN batch |-> ClayRecord(batch[n])]

\* companies[i:i + CLAY_BATCH_SIZE]
BatchAt(n) ==
    SubSeq(deduplicated, n,
           IF n + batch_size - 1 < Len(deduplicated)
           THEN n + batch_size - 1 ELSE Len(deduplicated))

MAX_RETRIES == 3
RETRY_DELAY == 2

\* What a request to the webhook can end in: an HTTP status, or a
\* requests.exceptions.RequestException (no connection, timeout).
SuccessStatus == {"200", "201", "202"}
Answers == SuccessStatus \cup {"500", "RequestException"}

\* one iteration of the loop of send_to_clay up to its call of
\* _send_batch_to_clay: the payload of the batch is prepared, a payload of
\* one record is unwrapped, and the retry loop starts with attempt 1
SendBatch ==
    /\ stage = "sending"
    /\ attempt = 0
    /\ send_i <= Len(deduplicated)
    /\ LET payload == PrepareClayPayload(BatchAt(send_i))
           data_to_send == IF Len(payload) = 1 THEN payload[1] ELSE payload
       IN  payloads' = Append(payloads, data_to_send)
    /\ attempt' = 1
    /\ responses' = <<>>
    /\ sleeps' = <<>>
    /\ UNCHANGED <<send_i, successful, failed, batch_size>>
    /\ UNCHANGED <<given, companies, pc, g, deduplicated, stats>>
    /\ UNCHANGED <<groupingVars, mergeVars, mainVars, enrichVars>>
    /\ UNCHANGED <<fetchVars, runsVars>>

\* _send_batch_to_clay has returned: send_to_clay counts the records of the
\* batch and goes to the next batch (the 0.2 s pause between two batches
\* changes nothing)
BatchDone(success) ==
    /\ IF success
       THEN successful' = successful + Len(BatchAt(send_i)) /\ UNCHANGED failed
       ELSE failed' = failed + Len(BatchAt(send_i)) /\ UNCHANGED successful
    /\ send_i' = send_i + batch_size
    /\ attempt' = 0

\* a retry loop that goes on for one attempt more
SendAttemptOneMore ==
    /\ stage = "sending"
    /\ attempt \in 1..(MAX_RETRIES + 1)
    /\ \E answer \in Answers :
          /\ responses' = Append(responses, answer)
          /\ IF answer \in SuccessStatus
             THEN BatchDone(TRUE) /\ UNCHANGED sleeps
             ELSE IF attempt <= MAX_RETRIES
                  THEN /\ sleeps' = Append(sleeps, RETRY_DELAY * attempt)
                       /\ attempt' = attempt + 1
                       /\ UNCHANGED <<send_i, successful, failed>>
                  ELSE BatchDone(FALSE) /\ UNCHANGED sleeps
    /\ UNCHANGED <<payloads, batch_size>>
    /\ UNCHANGED <<given, companies, pc, g, deduplicated, stats>>
    /\ UNCHANGED <<groupingVars, mergeVars, mainVars, enrichVars>>
    /\ UNCHANGED <<fetchVars, runsVars>>

\* a send loop that counts one record for a batch that was not accepted
SendAttemptCountsOne ==
    /\ stage = "sending"
    /\ attempt \in 1..MAX_RETRIES
    /\ \E answer \in Answers :
          /\ responses' = Append(responses, answer)
          /\ IF answer \in SuccessStatus
             THEN BatchDone(TRUE) /\ UNCHANGED sleeps
             ELSE IF attempt < MAX_RETRIES
                  THEN /\ sleeps' = Append(sleeps, RETRY_DELAY * attempt)
                       /\ attempt' = attempt + 1
                       /\ UNCHANGED <<send_i, successful, failed>>
                  ELSE /\ failed' = failed + 1
                       /\ send_i' = send_i + batch_size
                       /\ attempt' = 0
                       /\ UNCHANGED <<successful, sleeps>>
    /\ UNCHANGED <<payloads, batch_size>>
    /\ UNCHANGED <<given, companies, pc, g, deduplicated, stats>>
    /\ UNCHANGED <<groupingVars, mergeVars, mainVars, enrichVars>>
    /\ UNCHANGED <<fetchVars, runsVars>>

\* one iteration of the retry loop of _send_batch_to_clay: a request is
\* made; a status of 200, 201 or 202 returns True; any other status and a
\* RequestException lead to a sleep of RETRY_DELAY * attempt and the next
\* attempt, or after attempt MAX_RETRIES to the return of False
SendAttempt ==
    /\ stage = "sending"
    /\ attempt \in 1..MAX_RETRIES
    /\ \E answer \in Answers :
          /\ responses' = Append(responses, answer)
          /\ IF answer \in SuccessStatus
             THEN BatchDone(TRUE) /\ UNCHANGED sleeps
             ELSE IF attempt < MAX_RETRIES
                  THEN /\ sleeps' = Append(sleeps, RETRY_DELAY * attempt)
                       /\ attempt' = attempt + 1
                       /\ UNCHANGED <<send_i, successful, failed>>
                  ELSE BatchDone(FALSE) /\ UNCHANGED sleeps
    /\ UNCHANGED <<payloads, batch_size>>
    /\ UNCHANGED <<given, companies, pc, g, deduplicated, stats>>
    /\ UNCHANGED <<groupingVars, mergeVars, mainVars, enrichVars>>
    /\ UNCHANGED <<fetchVars, runsVars>>

\* the loop of send_to_clay is over: main prints the summary and ends
SendReturn ==
    /\ stage = "sending"
    /\ attempt = 0
    /\ send_i > Len(deduplicated)
    /\ stage' = "end"
    /\ UNCHANGED <<given, companies, pc, g, deduplicated, stats, args, sec_companies,
                   news_companies>>
    /\ UNCHANGED <<groupingVars, mergeVars, enrichVars, sendVars>>
    /\ UNCHANGED <<fetchVars, runsVars>>

\* ------------------------------------------------------------------------
\* fetch_sec_form_d_filings, _make_sec_api_request
\* ------------------------------------------------------------------------

SEC_API_PAGE_SIZE == 50
MaxPage == 2
MaxTotal == 3

\* An offering of a page: one whose issuer has an entity name and one
\* whose issuer has none.
Offerings == {"named", "unnamed"}

\* _normalize_sec_offering: the record of the offering, None without a name
NormalizeSecOffering(offering) ==
    IF offering = "named" THEN <<SecCompany(NameA)>> ELSE <<>>

\* the loop over the offerings of a page: if company: all_companies.append
RECURSIVE NormalizeSecOfferings(_)
NormalizeSecOfferings(offerings) ==
    IF offerings = <<>> THEN <<>>
    ELSE NormalizeSecOffering(offerings[1]) \o NormalizeSecOfferings(Tail(offerings))

\* The "total" of an answer: an object with a number of at most MaxTotal as
\* its value, an object whose value is null, or a value that is no object.
Totals ==
    {[kind |-> "value", value |-> n] : n \in 0..MaxTotal}
        \cup {[kind |-> "null", value |-> 0], [kind |-> "scalar", value |-> 0]}

\* What one request can end in: the JSON of a page of at most MaxPage
\* offerings, or a requests.exceptions.RequestException.
PageAnswers ==
    {[kind |-> "page", offerings |-> o, total |-> t] :
        o \in SeqsUpTo(Offerings, 0, MaxPage), t \in Totals}
SecAnswers == PageAnswers \cup {[kind |-> "RequestException"]}

\* _make_sec_api_request returned None
ResponseNone == [kind |-> "None"]

\* a retry loop that starts over after its last attempt has failed
SecRequestStartsOver ==
    /\ fetch_pc = "request"
    /\ sec_attempt \in 1..MAX_RETRIES
    /\ \E answer \in SecAnswers :
          IF answer.kind = "RequestException"
          THEN /\ sec_attempt' = IF sec_attempt < MAX_RETRIES THEN sec_attempt + 1 ELSE 1
               /\ UNCHANGED <<fetch_pc, response>>
          ELSE /\ response' = answer
               /\ sec_attempt' = 0
               /\ fetch_pc' = "page"
    /\ UNCHANGED <<offset, total_fetched, fetch_companies>>
    /\ UNCHANGED <<given, companies, pc, g, deduplicated, stats>>
    /\ UNCHANGED <<groupingVars, mergeVars, mainVars, enrichVars, sendVars, runsVars>>

\* one iteration of the retry loop of _make_sec_api_request: the JSON of the
\* answer is returned; a RequestException leads to a sleep and the next
\* attempt, or after attempt MAX_RETRIES to the return of None
SecRequest ==
    /\ fetch_pc = "request"
    /\ sec_attempt \in 1..MAX_RETRIES
    /\ \E answer \in SecAnswers :
          IF answer.kind = "RequestException"
          THEN IF sec_attempt < MAX_RETRIES
               THEN /\ sec_attempt' = sec_attempt + 1
                    /\ UNCHANGED <<fetch_pc, response>>
               ELSE /\ response' = ResponseNone
                    /\ sec_attempt' = 0
                    /\ fetch_pc' = "page"
          ELSE /\ response' = answer
               /\ sec_attempt' = 0
               /\ fetch_pc' = "page"
    /\ UNCHANGED <<offset, total_fetched, fetch_companies>>
    /\ UNCHANGED <<given, companies, pc, g, deduplicated, stats>>
    /\ UNCHANGED <<groupingVars, mergeVars, mainVars, enrichVars, sendVars, runsVars>>

\* break, and the return of all_companies behind the loop
SecBreak ==
    /\ fetch_pc' = "returned"
    /\ UNCHANGED <<offset, sec_attempt>>

\* the body of the while loop behind the request.  The loop is left when
\* the response is None, when response.get("total", {}).get(...) raises
\* because total is no object (caught by except Exception), when the page
\* is empty, when total_fetched >= total_count raises because the value is
\* null (caught likewise, the page's records are appended by then), and when
\* total_fetched has reached total_count; otherwise the next page is asked
\* for.
SecPage ==
    /\ fetch_pc = "page"
    /\ IF response.kind = "None"
       THEN SecBreak /\ UNCHANGED <<total_fetched, fetch_companies>>
       ELSE IF response.total.kind = "scalar" \/ response.offerings = <<>>
       THEN SecBreak /\ UNCHANGED <<total_fetched, fetch_companies>>
       ELSE /\ fetch_companies' = fetch_companies \o NormalizeSecOfferings(response.offerings)
            /\ total_fetched' = total_fetched + Len(response.offerings)
            /\ IF response.total.kind = "null" \/ total_fetched' >= response.total.value
               THEN SecBreak
               ELSE /\ offset' = offset + SEC_API_PAGE_SIZE
                    /\ sec_attempt' = 1
                    /\ fetch_pc' = "request"
    /\ UNCHANGED response
    /\ UNCHANGED <<given, companies, pc, g, deduplicated, stats>>
    /\ UNCHANGED <<groupingVars, mergeVars, mainVars, enrichVars, sendVars, runsVars>>

\* ------------------------------------------------------------------------
\* main
\* ------------------------------------------------------------------------

MaxNews == 2
DefaultMaxLookups == 50

\* what the adapters return to main: the filing adapter one issuer or none,
\* the news adapter up to MaxNews records, among them one whose investors
\* list holds an object
NewsCompanyWithObject(name, source) ==
    Company(name, source, None, "AI tooling", "Software", "", None,
            "Seed", <<>>, <<"Beta Capital", InvestorObject>>)
SecResults == SeqsUpTo({SecCompany(NameA)}, 0, 1)
NewsPool ==
    { NewsCompany(NameA, "TechCrunch"),
      NewsCompany(NameB, "VentureBeat"),
      NewsCompanyWithObject(NameC, "PitchBook") }
NewsResults == SeqsUpTo(NewsPool, 0, MaxNews)

\* the outcomes of a fetch: it raises, or it returns a list
FetchOutcomes(results) ==
    {[raised |-> TRUE, value |-> <<>>]} \cup {[raised |-> FALSE, value |-> r] : r \in results}

MainArgs ==
    [skip_sec : BOOLEAN, skip_news : BOOLEAN, skip_enrichment : BOOLEAN,
     max_website_lookups : {1, DefaultMaxLookups}, dry_run : BOOLEAN,
     test_webhook : BOOLEAN]

\* entry of main: with test_webhook the webhook is tested and the process exits
MainStart ==
    /\ stage = "start"
    /\ stage' = IF args.test_webhook THEN "exit" ELSE "fetch_sec"
    /\ UNCHANGED <<given, companies, pc, g, deduplicated, stats, args, sec_companies,
                   news_companies>>
    /\ UNCHANGED <<groupingVars, mergeVars, enrichVars, sendVars>>
    /\ UNCHANGED <<fetchVars, runsVars>>

\* the filing fetch: an exception leaves sec_companies as the empty list
MainFetchSec ==
    /\ stage = "fetch_sec"
    /\ IF ~args.skip_sec
       THEN \E outcome \in FetchOutcomes(SecResults) :
               sec_companies' = IF outcome.raised THEN <<>> ELSE outcome.value
       ELSE sec_companies' = <<>>
    /\ stage' = "fetch_news"
    /\ UNCHANGED <<given, companies, pc, g, deduplicated, stats, args, news_companies>>
    /\ UNCHANGED <<groupingVars, mergeVars, enrichVars, sendVars>>
    /\ UNCHANGED <<fetchVars, runsVars>>

\* the news fetch: an exception leaves news_companies as the empty list
MainFetchNews ==
    /\ stage = "fetch_news"
    /\ IF ~args.skip_news
       THEN \E outcome \in FetchOutcomes(NewsResults) :
               news_companies' = IF outcome.raised THEN <<>> ELSE outcome.value
       ELSE news_companies' = <<>>
    /\ stage' = "combine"
    /\ UNCHANGED <<given, companies, pc, g, deduplicated, stats, args, sec_companies>>
    /\ UNCHANGED <<groupingVars, mergeVars, enrichVars, sendVars>>
    /\ UNCHANGED <<fetchVars, runsVars>>

\* all_companies = sec_companies + news_companies; main returns when it is
\* empty and calls deduplicate_companies otherwise
MainCombine ==
    /\ stage = "combine"
    /\ LET all_companies == sec_companies \o news_companies
       IN  IF all_companies = <<>>
           THEN /\ stage' = "end"
                /\ UNCHANGED <<given, companies, pc>>
           ELSE /\ stage' = "dedup"
                /\ companies' = all_companies
                /\ given' = all_companies
                /\ pc' = "call"
    /\ UNCHANGED <<g, deduplicated, stats, args, sec_companies, news_companies>>
    /\ UNCHANGED <<groupingVars, mergeVars, enrichVars, sendVars>>
    /\ UNCHANGED <<fetchVars, runsVars>>

\* a main that deduplicates again when the enrichment is over
MainSendRegroups ==
    /\ stage \in {"send", "enriched", "enrich_raised"}
    /\ IF stage = "enriched" /\ lookups # <<>>
       THEN /\ stage' = "dedup"
            /\ companies' = deduplicated
            /\ pc' = "call"
            /\ deduplicated' = <<>>
            /\ UNCHANGED sendVars
       ELSE /\ stage' = "end"
            /\ successful' = Len(deduplicated)
            /\ failed' = 0
            /\ UNCHANGED <<send_i, payloads, companies, pc, deduplicated>>
            /\ UNCHANGED deliveryVars
    /\ UNCHANGED <<given, g, stats, args, sec_companies, news_companies>>
    /\ UNCHANGED <<groupingVars, mergeVars, enrichVars>>
    /\ UNCHANGED <<fetchVars, runsVars>>

\* deduplication and its statistics are done: main enriches unless told to
\* skip it (an exception of the enrichment is caught and main goes on)
MainEnrich ==
    /\ stage = "dedup"
    /\ pc = "done"
    /\ IF ~args.skip_enrichment /\ deduplicated # <<>>
       THEN /\ stage' = "batch_enrich"
            /\ max_lookups' = args.max_website_lookups
            /\ lookup_count' = 0
            /\ enrich_i' = 1
            /\ UNCHANGED lookups
       ELSE /\ stage' = "send"
            /\ UNCHANGED enrichVars
    /\ UNCHANGED <<given, companies, pc, g, deduplicated, stats, args, sec_companies,
                   news_companies>>
    /\ UNCHANGED <<groupingVars, mergeVars, sendVars>>
    /\ UNCHANGED <<fetchVars, runsVars>>

\* the enrichment is over or was skipped: a dry run counts every record as
\* sent and ends, otherwise send_to_clay is entered
MainSend ==
    /\ stage \in {"send", "enriched", "enrich_raised"}
    /\ IF args.dry_run
       THEN /\ stage' = "end"
            /\ successful' = Len(deduplicated)
            /\ failed' = 0
            /\ UNCHANGED <<send_i, payloads>>
       ELSE /\ stage' = IF deduplicated = <<>> THEN "end" ELSE "sending"
            /\ send_i' = 1
            /\ successful' = 0
            /\ failed' = 0
            /\ UNCHANGED payloads
    /\ UNCHANGED deliveryVars
    /\ UNCHANGED <<given, companies, pc, g, deduplicated, stats, args, sec_companies,
                   news_companies>>
    /\ UNCHANGED <<groupingVars, mergeVars, enrichVars>>
    /\ UNCHANGED <<fetchVars, runsVars>>

\* ------------------------------------------------------------------------
\* Specifications
\* ------------------------------------------------------------------------

Next ==
    \/ DedupCall
    \/ GroupSeed
    \/ GroupScan
    \/ GroupClose
    \/ GroupReturn
    \/ MergeBegin
    \/ MergeFold
    \/ MergeReturn
    \/ DedupAppend
    \/ DedupReturn
    \/ GetDedupStats

\* a whole deduplication run on a list of at most MaxCompanies records
Spec == Init /\ [][Next]_vars

\* The program is run a second time, in another process, on the same input:
\* what the first process returned is kept, and deduplicate_companies is
\* called with a list equal to the one the first process was given.
DedupAgain ==
    /\ pc = "done"
    /\ ~earlier.ran
    /\ earlier' = [ran |-> TRUE, output |-> deduplicated]
    /\ companies' = given
    /\ pc' = "call"
    /\ normalized_names' = <<>>
    /\ used' = {}
    /\ groups' = <<>>
    /\ group' = <<>>
    /\ i' = 1
    /\ j' = 1
    /\ g' = 1
    /\ sorted_group' = <<>>
    /\ merged' = NoRecord
    /\ k' = 1
    /\ deduplicated' = <<>>
    /\ stats' = NoStats
    /\ UNCHANGED <<given, mainVars, enrichVars, sendVars, fetchVars>>

NextTwice ==
    \/ Next
    \/ DedupAgain

\* two runs of deduplicate_companies on the same input
SpecTwice == Init /\ [][NextTwice]_vars

NextMerge ==
    \/ MergeBegin
    \/ MergeFold
    \/ MergeReturn
    \/ DedupAppend
    \/ DedupReturn
    \/ GetDedupStats

\* the merge of one group of at most MaxGroup records
SpecMerge == InitMerge /\ [][NextMerge]_vars

MaxNames == 2

\* Names given to the normaliser and the scorer: spellings of one name that
\* differ in case, suffix and punctuation; names of two and three words and
\* a reordering; a name whose last letters spell a suffix, with and without
\* a suffix of its own.
NameOpenAIInc == <<"O","p","e","n","A","I",","," ","I","n","c",".">>
NameOpenAIIncPlain == <<"O","p","e","n","A","I"," ","I","n","c">>
NameOpenAILower == <<"o","p","e","n","a","i">>
NameOpenAITwoWords == <<"O","p","e","n"," ","A","I">>
NameAIOpen == <<"A","I"," ","O","p","e","n">>
NameOpenAILabs == <<"O","p","e","n"," ","A","I"," ","L","a","b","s">>
NameZincInc == <<"Z","i","n","c"," ","I","n","c">>
NameZinc == <<"Z","i","n","c">>
NamePool ==
    {NameOpenAIInc, NameOpenAIIncPlain, NameOpenAILower, NameOpenAITwoWords,
     NameAIOpen, NameOpenAILabs, NameZincInc, NameZinc}

\* deduplicate_companies is called with up to MaxNames news records that
\* carry these names
InitNames ==
    /\ companies \in SeqsUpTo({NewsCompany(n, "TechCrunch") : n \in NamePool}, 1, MaxNames)
    /\ given = companies
    /\ pc = "call"
    /\ normalized_names = <<>>
    /\ used = {}
    /\ groups = <<>>
    /\ group = <<>>
    /\ i = 1
    /\ j = 1
    /\ g = 1
    /\ sorted_group = <<>>
    /\ merged = NoRecord
    /\ k = 1
    /\ deduplicated = <<>>
    /\ stats = NoStats
    /\ NoPipeline

\* a deduplication run on such a list
SpecNames == InitNames /\ [][Next]_vars

MaxThreshold == 3

\* Names around the threshold: the first two score exactly 85 (17 common
\* characters of 17 + 23), the last two 97.87, the first and the last 82.92.
NameRobotics == <<"N","o","r","t","h","w","i","n","d","R","o","b","o","t","i","c","s">>
NameRoboticsStudio == <<"N","o","r","t","h","w","i","n","d","R","o","b","o","t","i","c","s","S","t","u","d","i","o">>
NameRoboticsStudios == <<"N","o","r","t","h","w","i","n","d","R","o","b","o","t","i","c","s","S","t","u","d","i","o","s">>
ThresholdPool ==
    {NewsCompany(n, "TechCrunch") :
        n \in {NameRobotics, NameRoboticsStudio, NameRoboticsStudios}}

\* deduplicate_companies is called with up to MaxThreshold of these records
InitThreshold ==
    /\ companies \in SeqsUpTo(ThresholdPool, 1, MaxThreshold)
    /\ given = companies
    /\ pc = "call"
    /\ normalized_names = <<>>
    /\ used = {}
    /\ groups = <<>>
    /\ group = <<>>
    /\ i = 1
    /\ j = 1
    /\ g = 1
    /\ sorted_group = <<>>
    /\ merged = NoRecord
    /\ k = 1
    /\ deduplicated = <<>>
    /\ stats = NoStats
    /\ NoPipeline

\* a deduplication run on such a list
SpecThreshold == InitThreshold /\ [][Next]_vars

MaxRaw == 2

\* Raw names with characters and endings the normalisation has to deal
\* with: an underscore, symbols and runs of blanks and tabs, punctuation
\* only, no name at all, and several suffixes in a row.
NameUnderscore == <<"F","o","o","_","B","a","r"," ","I","n","c">>
NameBlanks == <<" "," ","A"," ","&"," ","B","\t","\t","L","a","b","s"," ">>
NameSymbols == <<"&",".","-">>
NameFooIncLLC == <<"F","o","o"," ","I","n","c"," ","L","L","C">>
NameFooCapitalPartnersLP ==
    <<"F","o","o"," ","C","a","p","i","t","a","l"," ","P","a","r","t","n","e","r","s"," ","L","P">>
RawNamePool ==
    {NameUnderscore, NameBlanks, NameSymbols, NameMissing, NameFooIncLLC,
     NameFooCapitalPartnersLP}

\* deduplicate_companies is called with up to MaxRaw records that carry
\* these names
InitRaw ==
    /\ companies \in SeqsUpTo({NewsCompany(n, "TechCrunch") : n \in RawNamePool}, 1, MaxRaw)
    /\ given = companies
    /\ pc = "call"
    /\ normalized_names = <<>>
    /\ used = {}
    /\ groups = <<>>
    /\ group = <<>>
    /\ i = 1
    /\ j = 1
    /\ g = 1
    /\ sorted_group = <<>>
    /\ merged = NoRecord
    /\ k = 1
    /\ deduplicated = <<>>
    /\ stats = NoStats
    /\ NoPipeline

\* a deduplication run on such a list
SpecRaw == InitRaw /\ [][Next]_vars

\* no call of the engine is under way
EngineIdle ==
    /\ pc = "idle"
    /\ given = <<>>
    /\ companies = <<>>
    /\ normalized_names = <<>>
    /\ used = {}
    /\ groups = <<>>
    /\ group = <<>>
    /\ i = 1
    /\ j = 1
    /\ g = 1
    /\ sorted_group = <<>>
    /\ merged = NoRecord
    /\ k = 1
    /\ stats = NoStats

\* main is called
InitRun ==
    /\ EngineIdle
    /\ deduplicated = <<>>
    /\ stage = "start"
    /\ args \in MainArgs
    /\ sec_companies = <<>>
    /\ news_companies = <<>>
    /\ max_lookups = 0
    /\ lookup_count = 0
    /\ enrich_i = 1
    /\ lookups = <<>>
    /\ send_i = 1
    /\ payloads = <<>>
    /\ successful = 0
    /\ failed = 0
    /\ batch_size = CLAY_BATCH_SIZE
    /\ attempt = 0
    /\ responses = <<>>
    /\ sleeps = <<>>
    /\ NoFetch
    /\ earlier = NoRun

NextRun ==
    \/ MainStart
    \/ MainFetchSec
    \/ MainFetchNews
    \/ MainCombine
    \/ DedupCall
    \/ GroupSeed
    \/ GroupScan
    \/ GroupClose
    \/ GroupReturn
    \/ MergeBegin
    \/ MergeFold
    \/ MergeReturn
    \/ DedupAppend
    \/ DedupReturn
    \/ GetDedupStats
    \/ MainEnrich
    \/ BatchEnrichVisit
    \/ BatchEnrichReturn
    \/ MainSend
    \/ SendBatch
    \/ SendAttempt
    \/ SendReturn

\* one run of main
SpecRun == InitRun /\ [][NextRun]_vars

MaxEnrich == 4

\* Records given to an enrichment function: with a website, with an empty
\* one, with none, and with neither a website nor a name.
EnrichPool ==
    { Company(Foo, "TechCrunch", "w2", "d2", "X", "l2", "c2", "Series A", <<500000>>, <<"A">>),
      Company(FooLabs, "SEC Form D", "", "d6", "", "l6", "", "Equity", <<0>>, <<>>),
      Company(FooInc, "Crunchbase", None, "", "Y", "", None, "Unknown", <<>>, <<"B">>),
      Company(NameMissing, "VentureBeat", None, "d5", "Z", "", "c5", None, <<>>, <<>>) }

\* the values of max_lookups
LookupLimits == (0 - 1) .. MaxEnrich

\* an enrichment function is called on a list: st is the function entered,
\* limits the values of max_lookups it is called with
EnrichCalled(st, limits) ==
    /\ EngineIdle
    /\ deduplicated \in SeqsUpTo(EnrichPool, 0, MaxEnrich)
    /\ stage = st
    /\ max_lookups \in limits
    /\ args = NoArgs
    /\ sec_companies = <<>>
    /\ news_companies = <<>>
    /\ lookup_count = 0
    /\ enrich_i = 1
    /\ lookups = <<>>
    /\ send_i = 1
    /\ payloads = <<>>
    /\ successful = 0
    /\ failed = 0
    /\ batch_size = CLAY_BATCH_SIZE
    /\ attempt = 0
    /\ responses = <<>>
    /\ sleeps = <<>>
    /\ NoFetch
    /\ earlier = NoRun

\* batch_enrich_websites is called
InitBatch == EnrichCalled("batch_enrich", LookupLimits)

NextBatch ==
    \/ BatchEnrichVisit
    \/ BatchEnrichReturn

\* one call of batch_enrich_websites
SpecBatch == InitBatch /\ [][NextBatch]_vars

\* batch_enrich_websites or enrich_with_websites (which has no max_lookups)
\* is called
InitEnrich == InitBatch \/ EnrichCalled("enrich", {0})

NextEnrich ==
    \/ BatchEnrichVisit
    \/ BatchEnrichReturn
    \/ EnrichVisit
    \/ EnrichReturn

\* one call of an enrichment function
SpecEnrich == InitEnrich /\ [][NextEnrich]_vars

MaxSend == 3
MaxBatch == 2

\* Records handed to send_to_clay and the batch sizes it is configured with
SendPool == {SecCompany(NameA), NewsCompany(NameB, "TechCrunch")}
BatchSizes == CLAY_BATCH_SIZE..MaxBatch

\* send_to_clay is called with a list of one to MaxSend records and is past
\* its test for the empty list
InitSend ==
    /\ EngineIdle
    /\ deduplicated \in SeqsUpTo(SendPool, 1, MaxSend)
    /\ stage = "sending"
    /\ args = NoArgs
    /\ sec_companies = <<>>
    /\ news_companies = <<>>
    /\ max_lookups = 0
    /\ lookup_count = 0
    /\ enrich_i = 1
    /\ lookups = <<>>
    /\ send_i = 1
    /\ payloads = <<>>
    /\ successful = 0
    /\ failed = 0
    /\ batch_size \in BatchSizes
    /\ attempt = 0
    /\ responses = <<>>
    /\ sleeps = <<>>
    /\ NoFetch
    /\ earlier = NoRun

NextSend ==
    \/ SendBatch
    \/ SendAttempt
    \/ SendReturn

\* one call of send_to_clay
SpecSend == InitSend /\ [][NextSend]_vars

\* fetch_sec_form_d_filings is called and is about to ask for the first page
InitFetch ==
    /\ EngineIdle
    /\ deduplicated = <<>>
    /\ stage = "none"
    /\ args = NoArgs
    /\ sec_companies = <<>>
    /\ news_companies = <<>>
    /\ max_lookups = 0
    /\ lookup_count = 0
    /\ enrich_i = 1
    /\ lookups = <<>>
    /\ send_i = 1
    /\ payloads = <<>>
    /\ successful = 0
    /\ failed = 0
    /\ batch_size = CLAY_BATCH_SIZE
    /\ attempt = 0
    /\ responses = <<>>
    /\ sleeps = <<>>
    /\ fetch_pc = "request"
    /\ offset = 0
    /\ total_fetched = 0
    /\ fetch_companies = <<>>
    /\ response = NoResponse
    /\ sec_attempt = 1
    /\ earlier = NoRun

NextFetch ==
    \/ SecRequest
    \/ SecPage

\* one call of fetch_sec_form_d_filings; the call keeps running (every
\* request ends, by its answer or by its timeout)
SpecFetch == InitFetch /\ [][NextFetch]_vars /\ WF_vars(NextFetch)

\* ------------------------------------------------------------------------
\* Properties
\* ------------------------------------------------------------------------

\* the groups built so far, the one being filled included
OpenGroups == IF pc = "scan" THEN Append(groups, group) ELSE groups

\* grouping has returned
Grouped == pc \in {"merge", "fold", "append", "stats", "done"} /\ given # <<>>

\* _merge_company_group is past its sort and copy on a group of two or more
MergingMany == pc \in {"fold", "append"} /\ Len(groups[g]) >= 2

\* one record of sorted_group[1:] is folded into merged by this step
FoldStep == pc = "fold" /\ k <= Len(sorted_group) /\ k' = k + 1

\* the priority numbers as the specification lists them
ListedPriority(source) ==
    IF source = "SEC Form D" THEN 0
    ELSE IF source = "TechCrunch" THEN 1
    ELSE IF source = "VentureBeat" THEN 2
    ELSE IF source = "CB Insights" THEN 3
    ELSE IF source = "PitchBook" THEN 4
    ELSE IF source = "Founder Collective Portfolio" THEN 5
    ELSE 999

\* the positions in grp whose record has the lowest priority number
TopPositions(grp) ==
    {n \in DOMAIN grp :
        \A m \in DOMAIN grp :
            ListedPriority(given[grp[n]].source) <= ListedPriority(given[grp[m]].source)}

\* the record of grp with the lowest priority number, the first of them in
\* the group's own order
TopRecord(grp) == given[grp[Min(TopPositions(grp))]]

\* C1: the merged record of a group of two or more carries the company_name
\* of the group's record with the lowest source-priority number, the first
\* such record in the group's original order when several tie; this holds
\* while the group is merged and of the record that is returned.
C1_NameOfTopPriority ==
    /\ MergingMany => merged.company_name = TopRecord(groups[g]).company_name
    /\ \A n \in DOMAIN deduplicated :
          Len(groups[n]) >= 2 =>
             deduplicated[n].company_name = TopRecord(groups[n]).company_name

\* C1 witness: a merged group of three is returned in which two records tie on
\* the lowest priority number, they carry different names, and the first
\* record of the group is not one of them.
C1_Witness ==
    /\ pc = "done"
    /\ Len(groups) = 1
    /\ Len(groups[1]) = 3
    /\ TopPositions(groups[1]) = {2, 3}
    /\ given[2].company_name # given[3].company_name
    /\ given[1].company_name # given[2].company_name
    /\ deduplicated[1].company_name = given[2].company_name

FillFields == {"company_website", "description", "industry", "location", "ceo_name"}

\* a value that counts as non-empty for the field it is held in (None, the
\* empty string and the number 0 are empty)
NonEmpty(f, v) == IF f = "funding_amount" THEN TruthyInt(v) ELSE v # None /\ v # ""

IsPrefix(a, b) == Len(a) <= Len(b) /\ SubSeq(b, 1, Len(a)) = a

\* C2 as stated: once a field of the merged record holds a non-empty value,
\* no later record of the group changes it, for every scalar field that is
\* merged, funding_round included.
C2_NeverReplaced ==
    [][FoldStep =>
          \A f \in FillFields \cup {"funding_amount", "funding_round"} :
              NonEmpty(f, merged[f]) => merged'[f] = merged[f]]_vars

\* C2 amended: a fold step leaves company_website, description, industry,
\* location, ceo_name and funding_amount as they are once they hold a truthy
\* value; it changes funding_round only while that is "Unknown", "Equity" or
\* absent; it only appends to investors; company_name and source never change.
C2_FillMissing ==
    [][FoldStep =>
          /\ \A f \in FillFields : TruthyStr(merged[f]) => merged'[f] = merged[f]
          /\ TruthyInt(merged.funding_amount) => merged'.funding_amount = merged.funding_amount
          /\ merged.funding_round \notin {"Unknown", "Equity", None} =>
                merged'.funding_round = merged.funding_round
          /\ IsPrefix(merged.investors, merged'.investors)
          /\ merged'.company_name = merged.company_name
          /\ merged'.source = merged.source]_vars

\* C2 witness: two records have been folded; the second offered a different
\* non-empty industry, description and funding_amount than the merged record
\* already held.
C2_Witness ==
    /\ pc = "fold"
    /\ k = 4
    /\ LET last == companies[sorted_group[3]]
       IN  /\ TruthyStr(last.industry) /\ TruthyStr(merged.industry)
           /\ last.industry # merged.industry
           /\ TruthyStr(last.description) /\ last.description # merged.description
           /\ TruthyInt(last.funding_amount) /\ TruthyInt(merged.funding_amount)
           /\ last.funding_amount # merged.funding_amount

\* the distinct source values of the raw records of a group
SourcesOfGroup(grp) == {given[grp[n]].source : n \in DOMAIN grp}

\* C3 as stated: every returned record has a sources value that is the set of
\* the source values of its group, of size 1 only for a group of one.
C3_SourcesOfEveryRecord ==
    pc = "done" =>
       \A n \in DOMAIN deduplicated :
          /\ "sources" \in DOMAIN deduplicated[n]
          /\ Range(deduplicated[n].sources) = SourcesOfGroup(groups[n])
          /\ Len(deduplicated[n].sources) = 1 => Len(groups[n]) = 1

\* C3 amended: the record of a group of two or more has a sources value that
\* holds each distinct source value of the group exactly once, so it has one
\* entry exactly when all records of the group carry the same source; the
\* record of a group of one is the raw record, which has no sources value.
C3_SourcesOfMerged ==
    pc = "done" =>
       \A n \in DOMAIN deduplicated :
          IF Len(groups[n]) = 1
          THEN /\ "sources" \notin DOMAIN deduplicated[n]
               /\ deduplicated[n].source = given[groups[n][1]].source
          ELSE /\ "sources" \in DOMAIN deduplicated[n]
               /\ Range(deduplicated[n].sources) = SourcesOfGroup(groups[n])
               /\ Len(deduplicated[n].sources) = Cardinality(SourcesOfGroup(groups[n]))

\* C3 witness: the run returned the record of a group of one and a record
\* merged from two records of the same source.
C3_Witness ==
    /\ pc = "done"
    /\ \E n \in DOMAIN deduplicated : Len(groups[n]) = 1
    /\ \E n \in DOMAIN deduplicated :
          Len(groups[n]) = 2 /\ Len(deduplicated[n].sources) = 1

\* the names of seq, each once, in the order of their first appearance
RECURSIVE FirstAppearances(_, _)
FirstAppearances(seq, seen) ==
    IF seq = <<>> THEN <<>>
    ELSE IF seq[1] \in seen THEN FirstAppearances(Tail(seq), seen)
    ELSE <<seq[1]>> \o FirstAppearances(Tail(seq), seen \cup {seq[1]})

\* the investors lists of the records at the positions ps, one after another
RECURSIVE InvestorsInOrder(_)
InvestorsInOrder(ps) ==
    IF ps = <<>> THEN <<>> ELSE given[ps[1]].investors \o InvestorsInOrder(Tail(ps))

\* the investor names of a list: its non-empty entries
Names(seq) == SelectSeq(seq, LAMBDA inv : inv # "")

\* C4: the investor names of a merged record are the union of the investor
\* names of the group's records, in the order of first appearance when the
\* records are visited in priority-sorted order, and no name is in it twice.
C4_InvestorUnion ==
    (pc = "append" /\ Len(groups[g]) >= 2) =>
        Names(merged.investors)
           = FirstAppearances(Names(InvestorsInOrder(sorted_group)), {})

\* the positions held by the groups, one group after another
RECURSIVE Flatten(_)
Flatten(gs) == IF gs = <<>> THEN <<>> ELSE gs[1] \o Flatten(Tail(gs))

\* C5: grouping is a partition of the input positions: no position is in two
\* groups or twice in one, the positions grouped are the ones marked used,
\* when grouping has returned every position is in a group and the group
\* sizes sum to the input length, and the output has one record per group.
C5_Partition ==
    LET flat == Flatten(OpenGroups)
    IN  /\ Len(flat) = Cardinality(Range(flat))
        /\ pc # "call" => Range(flat) = used
        /\ Grouped => Range(flat) = DOMAIN given /\ Len(flat) = Len(given)
        /\ pc = "merge" => Len(deduplicated) = g - 1
        /\ pc \in {"stats", "done"} => Len(deduplicated) = Len(groups)

\* C5 witness: a run over three records ended with a group of two and a
\* group of one.
C5_Witness ==
    /\ pc = "done"
    /\ Len(given) = 3
    /\ Len(groups) = 2
    /\ Len(deduplicated) = 2

\* the input is [A, B, C] with A, B within the threshold, B, C within the
\* threshold and A, C not (on the normalised names)
Threshold == FUZZY_MATCH_THRESHOLD * ScoreScale
ChainInput ==
    /\ Len(given) = 3
    /\ Len(normalized_names) = 3
    /\ CalculateSimilarity(normalized_names[1], normalized_names[2]) >= Threshold
    /\ CalculateSimilarity(normalized_names[2], normalized_names[3]) >= Threshold
    /\ CalculateSimilarity(normalized_names[1], normalized_names[3]) < Threshold

\* C6: for such an input grouping yields exactly the groups [A, B] and [C].
C6_NotTransitive ==
    (Grouped /\ ChainInput) => groups = << <<1, 2>>, <<3>> >>

\* C6 witness: a run on such an input has ended.
C6_Witness == pc = "done" /\ ChainInput

\* C7: the statistics report as companies_with_merged_sources the number of
\* groups of two or more records.
C7_MergedCountIsGroups ==
    pc = "done" =>
       stats.companies_with_merged_sources
          = Cardinality({n \in DOMAIN groups : Len(groups[n]) >= 2})

\* C8: an input of length 0 or 1 is returned unchanged, record and fields,
\* and the statistics report no duplicate removed.
C8_ShortInputUnchanged ==
    (pc = "done" /\ Len(given) <= 1) =>
        /\ deduplicated = given
        /\ companies = given
        /\ stats.duplicates_removed = 0

\* C8 witness: a run on a single record has ended.
C8_Witness == pc = "done" /\ Len(given) = 1 /\ Len(deduplicated) = 1

\* C9: a fold step replaces funding_round only when the merged value is
\* "Unknown", "Equity" or absent and the candidate is neither "Unknown" nor
\* absent, and then by the candidate; "Equity" with candidate "Series A"
\* gives "Series A", "Series A" with candidate "Series B" stays "Series A".
C9_FundingRoundRule ==
    [][FoldStep =>
          LET cur == merged.funding_round
              cand == companies[sorted_group[k]].funding_round
              new == merged'.funding_round
          IN  /\ new # cur => /\ cur \in {"Unknown", "Equity", None}
                              /\ cand \notin {"Unknown", None}
                              /\ new = cand
              /\ (cur = "Equity" /\ cand = "Series A") => new = "Series A"
              /\ (cur = "Series A" /\ cand = "Series B") => new = "Series A"]_vars

\* C9 witness: the first record held "Equity", a folded record replaced it by
\* "Series A", and a record with "Series B" was folded after that.
C9_Witness ==
    /\ pc = "fold"
    /\ k = 4
    /\ given[sorted_group[1]].funding_round = "Equity"
    /\ given[sorted_group[2]].funding_round = "Series A"
    /\ given[sorted_group[3]].funding_round = "Series B"
    /\ merged.funding_round = "Series A"

\* the name of the record at position n is missing or normalises to ""
Unnamed(n) == given[n].company_name = <<>> \/ normalized_names[n] = <<>>

\* C10: a record whose name is missing or normalises to the empty string is
\* alone in its group, in every group built.
C10_UnnamedAlone ==
    (pc # "call" /\ given # <<>>) =>
        \A n \in DOMAIN OpenGroups :
            \A m \in DOMAIN OpenGroups[n] :
                Unnamed(OpenGroups[n][m]) => Len(OpenGroups[n]) = 1

\* C10 witness: a run ended in which a record without a name and a record
\* whose name is only a suffix each make a group of their own.
C10_Witness ==
    /\ pc = "done"
    /\ \E a, b \in DOMAIN given :
          /\ given[a].company_name = NameMissing
          /\ given[b].company_name = NameSuffixOnly
          /\ \E n, m \in DOMAIN groups : n # m /\ groups[n] = <<a>> /\ groups[m] = <<b>>

\* C11: the engine never raises: on every list the adapters produce,
\* whatever the investors lists of the news records hold, normalisation,
\* scoring, grouping and merging run to their end without an exception.
C11_EngineNeverRaises == pc # "raised"

\* an enrichment function is running or has ended
Enriching == stage \in {"batch_enrich", "enrich", "enriched", "enrich_raised"}

\* the fields of a record other than company_website
OtherFields(rec) == DOMAIN rec \ {"company_website"}

\* C12: a step of the enrichment keeps the number and the order of the
\* records and every field of every record other than company_website, and
\* it changes company_website only of the record it is visiting and only
\* when that record's company_website is absent or empty at that moment.
C12_EnrichmentOnlyFillsWebsite ==
    [][Enriching =>
          /\ DOMAIN deduplicated' = DOMAIN deduplicated
          /\ \A n \in DOMAIN deduplicated :
                /\ DOMAIN deduplicated'[n] = DOMAIN deduplicated[n]
                /\ \A f \in OtherFields(deduplicated[n]) :
                      deduplicated'[n][f] = deduplicated[n][f]
                /\ deduplicated'[n].company_website # deduplicated[n].company_website =>
                      /\ n = enrich_i
                      /\ deduplicated[n].company_website \in {None, ""}]_vars

\* C12 witness: an enrichment has ended in which a record got a website and
\* a record that came with a website of its own was passed over.
C12_Witness ==
    /\ stage = "enriched"
    /\ \E n, m \in DOMAIN deduplicated :
          /\ deduplicated[n].company_website = FoundWebsite
          /\ deduplicated[m].company_website = "w2"
          /\ m \notin Range(lookups)

\* C13: batch_enrich_websites makes at most max_lookups calls of the website
\* lookup, none when max_lookups <= 0, at most one per record, and only for
\* records that have a name and came without a website.
C13_LookupsBounded ==
    /\ Len(lookups) <= (IF max_lookups > 0 THEN max_lookups ELSE 0)
    /\ Cardinality(Range(lookups)) = Len(lookups)
    /\ \A n \in DOMAIN lookups :
          /\ deduplicated[lookups[n]].company_name # <<>>
          /\ deduplicated[lookups[n]].company_website \in {FoundWebsite, None, ""}

\* C13 witness: the loop was left at the limit of two lookups with a record
\* still waiting for one, after a record with a website and a record
\* without a name were passed over.
C13_Witness ==
    /\ stage = "enriched"
    /\ max_lookups = 2
    /\ Len(lookups) = 2
    /\ enrich_i <= Len(deduplicated)
    /\ \E n \in 1..(enrich_i - 1) : n \notin Range(lookups)

\* both fetches of main are over and it has not returned for want of records
Fetched == stage \notin {"start", "exit", "fetch_sec", "fetch_news", "combine"} /\ given # <<>>

\* one source was asked and contributed no record while the other
\* contributed some
OneSourceFailed ==
    \/ ~args.skip_sec /\ sec_companies = <<>> /\ news_companies # <<>>
    \/ ~args.skip_news /\ news_companies = <<>> /\ sec_companies # <<>>

\* C14: when one source fails and the other returns records, the run goes on
\* with the other's records: they are what is deduplicated, the
\* deduplication runs to its end, and when the run ends the enrichment has
\* looked up websites (unless skipped) and every deduplicated record has been
\* handed to the sink (unless the run is a dry run).
C14_FailedSourceTolerated ==
    (Fetched /\ OneSourceFailed) =>
        /\ given = sec_companies \o news_companies
        /\ pc # "raised"
        /\ stage = "end" =>
              /\ Len(deduplicated) = Len(groups)
              /\ ~args.skip_enrichment => lookups # <<>>
              /\ ~args.dry_run => Len(payloads) = Len(deduplicated)

\* the string made of the entries of sq from the n-th on, separated by ", "
RECURSIVE CommaSeparated(_, _)
CommaSeparated(sq, n) ==
    IF n >= Len(sq) THEN sq[n] ELSE sq[n] \o ", " \o CommaSeparated(sq, n + 1)

\* C15: the n-th payload handed to the sink is that of the n-th group; when
\* the group is one raw record its source field is that record's source,
\* and when the group's records come from several sources it is the sources
\* of the group, each once, separated by ", " (in some order).
C15_PayloadSource ==
    \A n \in DOMAIN payloads :
        IF Len(groups[n]) = 1
        THEN payloads[n].source = given[groups[n][1]].source
        ELSE Cardinality(SourcesOfGroup(groups[n])) >= 2 =>
                payloads[n].source \in
                    {CommaSeparated(sq, 1) : sq \in ListsOfSet(SourcesOfGroup(groups[n]))}

\* C15 witness: a run has ended that handed the sink the record of a group
\* of one and a record merged from a filing and a TechCrunch item.
C15_Witness ==
    /\ stage = "end"
    /\ \E n, m \in DOMAIN payloads :
          /\ Len(groups[n]) = 1
          /\ payloads[n].source = "PitchBook"
          /\ Len(groups[m]) = 2
          /\ payloads[m].source \in {"SEC Form D, TechCrunch", "TechCrunch, SEC Form D"}

\* the stages of main in which the engine has not been called yet
BeforeDedup == {"start", "exit", "fetch_sec", "fetch_news", "combine"}

\* C18: the engine is not entered before both fetches are over, and only
\* once; no website is looked up before the deduplication and its statistics
\* are done; nothing is handed to the sink while an enrichment is under way,
\* and once something has been handed over no lookup is made and no record
\* changes; once the deduplication is done its groups stay as they are,
\* whatever the enrichment sets.
C18_StagesInOrder ==
    /\ [](/\ stage \in BeforeDedup => pc = "idle" /\ lookups = <<>> /\ payloads = <<>>
          /\ stage = "dedup" => lookups = <<>> /\ payloads = <<>>
          /\ pc \notin {"idle", "done"} => stage = "dedup"
          /\ lookups # <<>> => pc = "done"
          /\ stage \in {"batch_enrich", "enrich"} => payloads = <<>>
          /\ payloads # <<>> => stage \in {"sending", "end"})
    /\ [][/\ pc' = "call" => pc = "idle"
          /\ pc = "done" => pc' = "done" /\ groups' = groups
                            /\ Len(deduplicated') = Len(deduplicated)
          /\ payloads # <<>> => lookups' = lookups /\ deduplicated' = deduplicated]_vars

\* C18 witness: a run has ended that merged two records, looked up websites,
\* found one, and handed every record to the sink.
C18_Witness ==
    /\ stage = "end"
    /\ Len(groups) < Len(given)
    /\ lookups # <<>>
    /\ \E n \in DOMAIN deduplicated : deduplicated[n].company_website = FoundWebsite
    /\ Len(payloads) = Len(deduplicated)

\* the corporate suffixes as the specification lists them
ListedSuffixes ==
    { <<"i","n","c">>,
      <<"l","l","c">>,
      <<"l","t","d">>,
      <<"c","o","r","p">>,
      <<"c","o","r","p","o","r","a","t","i","o","n">>,
      <<"i","n","c","o","r","p","o","r","a","t","e","d">>,
      <<"l","i","m","i","t","e","d">>,
      <<"l",".","l",".","c",".">>,
      <<"c","o","m","p","a","n","y">>,
      <<"c","o">>,
      <<"h","o","l","d","i","n","g","s">>,
      <<"h","o","l","d","i","n","g">>,
      <<"g","r","o","u","p">>,
      <<"p","a","r","t","n","e","r">>,
      <<"p","a","r","t","n","e","r","s">>,
      <<"v","e","n","t","u","r","e">>,
      <<"v","e","n","t","u","r","e","s">>,
      <<"c","a","p","i","t","a","l">>,
      <<"f","u","n","d">>,
      <<"l","p">>,
      <<"l",".","p",".">> }

\* what may stand between a name and its suffix, and behind the suffix
SuffixSeparators == { <<>>, <<" ">>, <<",">>, <<","," ">> }
SuffixEndings == { <<>>, <<".">> }

\* b is a with a listed suffix at its end, letter case apart
AddsSuffix(a, b) ==
    \E w \in ListedSuffixes, sep \in SuffixSeparators, dot \in SuffixEndings :
        Lower(b) = Lower(a) \o sep \o w \o dot

\* a name without its punctuation, in lower case
Letters(name) == SelectSeq(Lower(name), LAMBDA c : c \notin {",", ".", "-", "&"})

\* a and b differ only in letter case, in punctuation, or in a listed suffix
\* at the end of one of them
SameButSpelling(a, b) ==
    \/ Lower(a) = Lower(b)
    \/ Letters(a) = Letters(b)
    \/ AddsSuffix(a, b)
    \/ AddsSuffix(b, a)

\* C16: two names of the list that differ only in letter case, in
\* punctuation or in a trailing listed suffix have the same normalised name,
\* and "OpenAI, Inc.", "OpenAI Inc" and "openai" all normalise to "openai".
C16_SpellingsNormalizeAlike ==
    pc # "call" =>
        \A a, b \in DOMAIN given :
            /\ SameButSpelling(given[a].company_name, given[b].company_name) =>
                   normalized_names[a] = normalized_names[b]
            /\ given[a].company_name \in {NameOpenAIInc, NameOpenAIIncPlain, NameOpenAILower} =>
                   normalized_names[a] = <<"o","p","e","n","a","i">>

\* the strings made of the whitespace-separated tokens of name in every order
TokenOrders(name) ==
    LET tokens == Split(name, <<>>)
    IN  {JoinTokens([n \in DOMAIN tokens |-> tokens[p[n]]]) : p \in ListsOfSet(DOMAIN tokens)}

\* C17: on the normalised names of the list the score is the same in both
\* directions, stays the same when the tokens of either name are put in
\* another order, lies between 0 and 100, and is 100 for two equal non-empty
\* names.  Stated where the grouping loop starts, with every name normalised.
C17_ScoreSymmetricOrderFree ==
    (pc = "seed" /\ i = 1) =>
        \A a, b \in DOMAIN normalized_names :
            LET na == normalized_names[a]
                nb == normalized_names[b]
                score == CalculateSimilarity(na, nb)
            IN  /\ score = CalculateSimilarity(nb, na)
                /\ score >= 0 /\ score <= 100 * ScoreScale
                /\ (na = nb /\ na # <<>>) => score = 100 * ScoreScale
                /\ \A pa \in TokenOrders(na), pb \in TokenOrders(nb) :
                      CalculateSimilarity(pa, pb) = score

\* C17 witness: "open ai" and "ai open" were scored 100 and grouped, in a run
\* that has ended.
C17_Witness ==
    /\ pc = "done"
    /\ normalized_names = << <<"o","p","e","n"," ","a","i">>, <<"a","i"," ","o","p","e","n">> >>
    /\ groups = << <<1, 2>> >>

\* the records sq[n..] folded into m one after another
RECURSIVE FoldFrom(_, _, _)
FoldFrom(m, sq, n) ==
    IF n > Len(sq) THEN m ELSE FoldFrom(FoldCompany(m, given[sq[n]]), sq, n + 1)

\* the records the merge of the group grp can return (one for each order of
\* its sources list), computed from the list as it was given
MergesOf(grp) ==
    IF Len(grp) = 1 THEN {given[grp[1]]}
    ELSE LET sq == SortedByPriority(grp, given)
         IN  {FoldFrom(WithSources(given[sq[1]], srcs), sq, 2) :
                 srcs \in ListsOfSet(GroupSources(grp, given))}

\* C19: the n-th record of the output is the merge of the n-th group opened,
\* the seeds of the groups are in input order, and the output returned has
\* as many records as there are groups.
C19_OutputInGroupOrder ==
    /\ \A n \in DOMAIN deduplicated : deduplicated[n] \in MergesOf(groups[n])
    /\ \A n \in DOMAIN OpenGroups :
          n > 1 => OpenGroups[n - 1][1] < OpenGroups[n][1]
    /\ pc \in {"stats", "done"} => Len(deduplicated) = Len(groups)

\* C19 witness: a run on three records has returned the merge of the first
\* and the third record in front of the second record.
C19_Witness ==
    /\ pc = "done"
    /\ groups = << <<1, 3>>, <<2>> >>
    /\ Len(deduplicated) = 2
    /\ deduplicated[1] # deduplicated[2]
    /\ deduplicated[2] = given[2]

\* the positions held by the groups in front of the n-th
EarlierPositions(n) == UNION {Range(OpenGroups[m]) : m \in 1..(n - 1)}

\* the score of the normalised names at the positions a and b reaches the
\* threshold
Matches(a, b) ==
    CalculateSimilarity(normalized_names[a], normalized_names[b])
        >= FUZZY_MATCH_THRESHOLD * ScoreScale

\* the positions the scan of the n-th group has passed
Scanned(n) == IF n > Len(groups) THEN 1..(j - 1) ELSE DOMAIN given

\* C20: in every group the seed is the earliest position that is in no
\* earlier group; the other members are in input order and each scores 85 or
\* more with the seed; and every position behind the seed that the scan has
\* passed, is in no earlier group and scores 85 or more with the seed is a
\* member, whatever it scores with the other members.
C20_SeedAnchored ==
    pc # "call" =>
        \A n \in DOMAIN OpenGroups :
            LET grp == OpenGroups[n]
                seed == grp[1]
            IN  /\ seed \notin EarlierPositions(n)
                /\ \A p \in 1..(seed - 1) : p \in EarlierPositions(n)
                /\ \A m \in 2..Len(grp) : grp[m - 1] < grp[m] /\ Matches(seed, grp[m])
                /\ \A p \in Scanned(n) :
                      (p > seed /\ p \notin EarlierPositions(n) /\ Matches(seed, p))
                         => p \in Range(grp)
                /\ \A m \in DOMAIN grp : grp[m] \notin EarlierPositions(n)

\* C20 witness: a run has ended in which the second record joined the first
\* with a score of exactly 85 and the third, which scores more than 85 with
\* the second but less with the first, made a group of its own.
C20_Witness ==
    /\ pc = "done"
    /\ Len(given) = 3
    /\ CalculateSimilarity(normalized_names[1], normalized_names[2])
          = FUZZY_MATCH_THRESHOLD * ScoreScale
    /\ Matches(2, 3)
    /\ ~Matches(1, 3)
    /\ groups = << <<1, 2>>, <<3>> >>

\* the six fields that are filled only while they are empty
FilledFields == FillFields \cup {"funding_amount"}

\* the positions of grp whose record holds a non-empty value for field f
Holders(grp, f) == {n \in DOMAIN grp : NonEmpty(f, given[grp[n]][f])}

\* the first of the positions h in priority-sorted order: the lowest
\* priority number, and among equal numbers the earliest position in the
\* group
FirstHolder(grp, h) ==
    CHOOSE n \in h :
        \A m \in h :
            \/ ListedPriority(given[grp[n]].source) < ListedPriority(given[grp[m]].source)
            \/ /\ ListedPriority(given[grp[n]].source) = ListedPriority(given[grp[m]].source)
               /\ n <= m

\* the value the merged record of grp has to hold for field f
FirstNonEmpty(grp, f) ==
    LET h == Holders(grp, f)
    IN  given[grp[FirstHolder(grp, IF h = {} THEN DOMAIN grp ELSE h)]][f]

C22_InputsUnchanged ==
    pc \in {"stats", "done"} => companies = given

\* the characters a normalised name may hold besides the single space
LowerAlnum == Range(LowerLetters) \cup Range(Digits)

\* s holds lower-case letters, digits and single spaces only, and neither
\* starts nor ends with a space
CleanName(s) ==
    /\ \A n \in DOMAIN s : s[n] \in LowerAlnum \cup {" "}
    /\ \A n \in DOMAIN s : (s[n] = " ") => (n > 1 /\ n < Len(s) /\ s[n + 1] # " ")

\* C23: every normalised name holds only lower-case letters, digits and
\* single spaces, with no space at either end and no run of whitespace
\* (punctuation, the underscore and symbols are gone), and an empty or
\* absent name gives the empty string.
C23_NormalizedIsClean ==
    pc # "call" =>
        \A n \in DOMAIN normalized_names :
            /\ CleanName(normalized_names[n])
            /\ given[n].company_name = <<>> => normalized_names[n] = <<>>

\* the last whitespace-separated token of s is one of the listed suffixes
EndsInSuffix(s) ==
    LET tokens == Split(s, <<>>)
    IN  tokens # <<>> /\ tokens[Len(tokens)] \in ListedSuffixes

\* C29: normalising a normalised name changes nothing, and no normalised
\* name still ends in a listed suffix, also when the raw name ends in
\* several suffixes in a row.
C29_NormalizeIdempotent ==
    pc # "call" =>
        \A n \in DOMAIN normalized_names :
            /\ NormalizeCompanyName(normalized_names[n]) = normalized_names[n]
            /\ ~EndsInSuffix(normalized_names[n])

\* C24: no record of a later group matches the seed of an earlier group:
\* for two groups, the first opened before the second, every member of the
\* second scores less than 85 with the seed of the first; this holds of the
\* groups while they are built and of the grouping result.
C24_LaterGroupsMissEarlierSeeds ==
    pc # "call" =>
        \A a, b \in DOMAIN OpenGroups :
            a < b => \A m \in DOMAIN OpenGroups[b] : ~Matches(OpenGroups[a][1], OpenGroups[b][m])

\* C24 witness: a run has ended with the groups [1, 3] and [2], where the
\* second record scores 85 or more with the third, a member of the first
\* group, but less with the first group's seed.
C24_Witness ==
    /\ pc = "done"
    /\ groups = << <<1, 3>>, <<2>> >>
    /\ Matches(3, 2)
    /\ ~Matches(1, 2)

\* every answer of seq is a failure: a status other than 200, 201 and 202,
\* or a request error
AllFailed(seq) == \A n \in DOMAIN seq : seq[n] \notin SuccessStatus

\* the delivery of the batch at hand has returned, and what it returned
Delivered == stage \in {"sending", "end"} /\ attempt = 0 /\ responses # <<>>
ReportedSuccess == Delivered /\ responses[Len(responses)] \in SuccessStatus

\* C25: the delivery of one batch makes at most MAX_RETRIES requests; while
\* it runs every request so far has failed and each was followed by a wait;
\* it returns success at the first request answered 200, 201 or 202 and
\* failure only after exactly MAX_RETRIES failed requests, in both cases
\* without a wait after the last request; the records are counted
\* accordingly, and no request is made for the batch afterwards.
C25_BoundedRetries ==
    /\ [](/\ attempt \in 0..MAX_RETRIES
          /\ Len(responses) <= MAX_RETRIES
          /\ attempt >= 1 =>
                /\ Len(responses) = attempt - 1
                /\ AllFailed(responses)
                /\ Len(sleeps) = Len(responses)
          /\ Delivered =>
                /\ AllFailed(SubSeq(responses, 1, Len(responses) - 1))
                /\ Len(sleeps) = Len(responses) - 1
                /\ ~ReportedSuccess => Len(responses) = MAX_RETRIES
          /\ \A n \in DOMAIN sleeps : sleeps[n] > 0)
    /\ [][/\ (attempt >= 1 /\ attempt' = 0) =>
                /\ ReportedSuccess' => successful' > successful /\ failed' = failed
                /\ ~ReportedSuccess' => failed' > failed /\ successful' = successful
          /\ attempt = 0 =>
                \/ responses' = responses /\ attempt' = 0
                \/ responses' = <<>> /\ attempt' = 1 /\ Len(payloads') = Len(payloads) + 1]_vars

\* C25 witness: send_to_clay has ended; one batch was not accepted, and the
\* last batch was accepted at its third request, after a failed status and a
\* request error with a wait behind each.
C25_Witness ==
    /\ stage = "end"
    /\ failed = 1
    /\ successful = 1
    /\ responses = <<"500", "RequestException", "202">>
    /\ sleeps = <<RETRY_DELAY, 2 * RETRY_DELAY>>

\* the number of input records in the batches that are completed
Accounted == IF send_i - 1 < Len(deduplicated) THEN send_i - 1 ELSE Len(deduplicated)

\* the number of batches that n records make
BatchesOf(n) == (n + batch_size - 1) \div batch_size

\* the input positions of the n-th consecutive batch
BatchPositions(n) ==
    {p \in DOMAIN deduplicated : (n - 1) * batch_size < p /\ p <= n * batch_size}

\* the n-th payload holds the records at the positions of the n-th batch, in
\* input order (a batch of one record is sent as that record)
PayloadIsBatch(n) ==
    LET first == (n - 1) * batch_size + 1
        size == Cardinality(BatchPositions(n))
    IN  /\ size >= 1
        /\ IF size = 1
           THEN payloads[n] = ClayRecord(deduplicated[first])
           ELSE /\ Len(payloads[n]) = size
                /\ \A m \in 1..size :
                      payloads[n][m] = ClayRecord(deduplicated[first + m - 1])

\* C26: send_to_clay accounts for every record exactly once: the payloads
\* are the consecutive batches of at most CLAY_BATCH_SIZE records in input
\* order, one payload per batch; the counts add up to the records of the
\* completed batches, and at the end to the number of input records; and a
\* completed batch adds all its records to successful when it was accepted
\* and all of them to failed when it was not.
C26_EveryRecordCountedOnce ==
    /\ [](/\ (send_i - 1) % batch_size = 0
          /\ successful + failed = Accounted
          /\ Len(payloads) = BatchesOf(Accounted) + (IF attempt >= 1 THEN 1 ELSE 0)
          /\ \A n \in DOMAIN payloads : PayloadIsBatch(n)
          /\ stage = "end" =>
                /\ successful + failed = Len(deduplicated)
                /\ Len(payloads) = BatchesOf(Len(deduplicated)))
    /\ [][(attempt >= 1 /\ attempt' = 0) =>
             LET size == Len(BatchAt(send_i))
             IN  /\ size >= 1 /\ size <= batch_size
                 /\ IF ReportedSuccess'
                    THEN successful' = successful + size /\ failed' = failed
                    ELSE failed' = failed + size /\ successful' = successful]_vars

\* C26 witness: three records were sent in batches of two; the first batch
\* of two different records was accepted and the last batch, of one record,
\* was not.
C26_Witness ==
    /\ stage = "end"
    /\ batch_size = 2
    /\ Len(deduplicated) = 3
    /\ deduplicated[1] # deduplicated[2]
    /\ Len(payloads) = 2
    /\ successful = 2
    /\ failed = 1
    /\ ~ReportedSuccess

\* the page in response makes the loop ask for the next page: it is not
\* None, its total is an object with a number, it is not empty, and the
\* filings fetched, this page included, are fewer than the reported total
AsksNextPage ==
    /\ response.kind = "page"
    /\ response.total.kind = "value"
    /\ response.offerings # <<>>
    /\ total_fetched + Len(response.offerings) < response.total.value

\* C27: the filing fetch terminates and never raises: every call returns;
\* a page request is given up only after MAX_RETRIES failed attempts; the
\* loop asks for the next page only after a non-empty page that was
\* processed without error and leaves the fetched filings below the reported
\* total, and returns otherwise; the records accumulated are never dropped,
\* and those of the page at hand are added before the loop goes on.
C27_FetchTerminates ==
    /\ <>(fetch_pc = "returned")
    /\ [](fetch_pc \in {"request", "page", "returned"})
    /\ [][/\ IsPrefix(fetch_companies, fetch_companies')
          /\ (fetch_pc = "request" /\ response'.kind = "None") => sec_attempt = MAX_RETRIES
          /\ (fetch_pc = "page" /\ AsksNextPage) =>
                /\ fetch_pc' = "request"
                /\ fetch_companies' = fetch_companies \o NormalizeSecOfferings(response.offerings)
          /\ (fetch_pc = "page" /\ ~AsksNextPage) => fetch_pc' = "returned"
          /\ fetch_pc = "returned" => UNCHANGED fetchVars]_vars

\* C27 witness: the fetch has returned the records of its first page after
\* the request for the second page failed MAX_RETRIES times.
C27_Witness ==
    /\ fetch_pc = "returned"
    /\ offset = SEC_API_PAGE_SIZE
    /\ response.kind = "None"
    /\ Len(fetch_companies) = 2

\* C28: deduplication is deterministic: a second run on the same input
\* returns the same output as the first, record for record and field for
\* field, the order of the entries of sources included, and so the same
\* source string for the sink.
C28_SameOutputTwice ==
    (pc = "done" /\ earlier.ran) =>
        /\ deduplicated = earlier.output
        /\ \A n \in DOMAIN deduplicated :
              FormatSource(deduplicated[n]) = FormatSource(earlier.output[n])

====
